---- MODULE Spec2Model ----
(***************************************************************************)
(* Model of the InfraHub allocation engine (src/backend/app): the server   *)
(* to field bindings, the department and team quota rows, the projects and *)
(* the request transactions that change them.                              *)
(*                                                                         *)
(* The database is PostgreSQL at its default isolation level (READ         *)
(* COMMITTED).  Every request runs on its own session; a statement sees    *)
(* the committed rows plus the writes of its own transaction; SELECT ...   *)
(* FOR UPDATE and DELETE take a row lock that is held until the            *)
(* transaction ends; an INSERT that collides on a unique index with an     *)
(* uncommitted row of another transaction waits for that transaction.      *)
(* One action of the model is one SQL statement (or the commit) of one     *)
(* request; the Python code between two statements touches no shared state *)
(* and is folded into the statement that follows it.                       *)
(***************************************************************************)
EXTENDS Integers, FiniteSets, Sequences, TLC

\* ---------------------------------------------------------------- bounds

\* Concurrent request sessions (get_db yields one session per request).
NumSessions == 2
\* Ids the database can hand out to field_server_allocations rows.
MaxAllocId == 3
\* Ids the database can hand out to the rows of each quota table.
MaxQuotaId == 2
\* Largest limit a quota request carries, in units of the bronze/regular reservation.
MaxUnits == 2
\* Most negative limit a quota request carries, in the same units.
NegUnits == 1
\* Requests served in one run of the quota specifications.
MaxRequests == 3
\* Ids the database can hand out to projects rows.
MaxProjectId == 2
\* Background tasks that can run at once.
NumWorkers == 1

\* ------------------------------------------------------- static org data

Sessions == 1..NumSessions
\* The sessions the background tasks open with session_factory().
Workers == (NumSessions + 1)..(NumSessions + NumWorkers)
Procs == Sessions \cup Workers
Servers == {"s1", "s2"}
Fields == {"f1", "f2"}
Departments == {"d1", "d2"}
Teams == {"t1", "t2"}
Sites == {"a"}

\* Field.site
FieldSite == [f \in Fields |-> "a"]

\* The centers; c3 has no field.
Centers == {"c1", "c2", "c3"}

\* Field.center_id, Department.field_id, Team.department_id
FieldCenter == [f \in Fields |-> IF f = "f1" THEN "c1" ELSE "c2"]
DeptField == [d \in Departments |-> IF d = "d1" THEN "f1" ELSE "f2"]
TeamDept == [tm \in Teams |-> "d1"]

\* The org tables after the centers, fields, departments and teams were created.
FullOrg ==
    [centers |-> Centers, fields |-> Fields, departments |-> Departments, teams |-> Teams]

\* SLA type -> performance tier -> (cpu, ram_gb)
SLA_QUOTA ==
    [bronze |-> [regular |-> <<2, 4>>, high_performance |-> <<4, 8>>],
     silver |-> [regular |-> <<4, 16>>, high_performance |-> <<8, 32>>],
     gold   |-> [regular |-> <<8, 32>>, high_performance |-> <<16, 64>>]]

\* A lookup that ignores the performance tier.
get_quota_regular_tier(sla_type, performance_tier) == SLA_QUOTA[sla_type]["regular"]

get_quota(sla_type, performance_tier) == SLA_QUOTA[sla_type][performance_tier]

CpuUnit == get_quota("bronze", "regular")[1]
RamUnit == get_quota("bronze", "regular")[2]

\* Server.cpu, Server.ram_gb of the inventory
ServerCpu == [s \in Servers |-> 2 * CpuUnit]
ServerRam == [s \in Servers |-> 2 * RamUnit]

\* Strings are sequences of characters, so that make_namespace_name can be
\* computed on them.
TeamIdText == [t \in Teams |-> IF t = "t1" THEN <<"t", "1">> ELSE <<"t", "2">>]
ProjectNames == {<<"p">>, <<"q">>}

\* str.lower() on the characters in use
lower(c) == IF c = "P" THEN "p" ELSE IF c = "Q" THEN "q" ELSE IF c = "T" THEN "t" ELSE c

\* A call of make_namespace_name that has not been made.
NoNaming == [team_id |-> <<>>, project_name |-> <<>>, result |-> "none"]

\* The characters in use that the class [a-z0-9-] matches
DnsChars == {"p", "q", "t", "1", "2", "-"}

NamespaceMaxLen == 63

RECURSIVE CollapseHyphens(_)
\* re.sub(r"-+", "-", text)
CollapseHyphens(text) ==
    IF Len(text) <= 1 THEN text
    ELSE IF text[1] = "-" /\ text[2] = "-" THEN CollapseHyphens(Tail(text))
    ELSE <<text[1]>> \o CollapseHyphens(Tail(text))

RECURSIVE StripHyphens(_)
\* str.strip("-")
StripHyphens(text) ==
    IF text = <<>> THEN text
    ELSE IF text[1] = "-" THEN StripHyphens(Tail(text))
    ELSE IF text[Len(text)] = "-" THEN StripHyphens(SubSeq(text, 1, Len(text) - 1))
    ELSE text

\* helm.provisioner.make_namespace_name
make_namespace_name(team_id, project_name) ==
    LET raw == team_id \o <<"-">> \o project_name
        sanitized == [i \in 1..Len(raw) |->
                        IF lower(raw[i]) \in DnsChars THEN lower(raw[i]) ELSE "-"]
        stripped == StripHyphens(CollapseHyphens(sanitized))
    IN SubSeq(stripped, 1, IF Len(stripped) < NamespaceMaxLen THEN Len(stripped)
                           ELSE NamespaceMaxLen)

Namespaces == {make_namespace_name(TeamIdText[tm], n) : tm \in Teams, n \in ProjectNames}

\* values.yaml without a namespace entry
NoNamespaces == [ns \in Namespaces |-> 0]

\* The (sla_type, performance_tier) pairs a create_project request may carry.
SlaInputs ==
    {<<"bronze", "regular">>, <<"bronze", "high_performance">>, <<"silver", "regular">>}

\* The limits a quota request may carry (the request schemas accept any int).
CpuInputs == {u * CpuUnit : u \in ((0 - NegUnits)..MaxUnits) \ {0}}
RamInputs == {u * RamUnit : u \in 1..MaxUnits}

\* auth/roles.py: the roles that bypass the scoped checks
SUPER_ADMIN_ROLES == {"center_admin", "platform_admin"}

is_super_admin(claims) == claims.role \in SUPER_ADMIN_ROLES

\* Claims(role, scope_id) of the callers
Actors ==
    {[role |-> "center_admin", scope_id |-> "none"],
     [role |-> "platform_admin", scope_id |-> "none"]}
    \cup {[role |-> "field_admin", scope_id |-> f] : f \in Fields}
    \cup {[role |-> "dept_admin", scope_id |-> d] : d \in Departments}
    \cup {[role |-> "team_lead", scope_id |-> t] : t \in Teams}

\* The server operations read claims.role alone: one caller per role.
ServerActors == {c \in Actors : c.scope_id \in {"none", "f1", "d1", "t1"}}

\* ----------------------------------------------------------------- state

VARIABLES
    allocs,     \* committed field_server_allocations rows
    deptq,      \* committed department_quota_allocations rows
    teamq,      \* committed team_quota_allocations rows
    projects,   \* committed projects rows
    txn,        \* txn[p]: the request or background task running on session p
    budget,     \* requests the run may still start (-1: no bound)
    tasks,      \* asyncio tasks created and not yet started
    backend,    \* the namespace entries of values.yaml, per namespace name
    org,        \* committed centers, fields, departments and teams rows (ids)
    hist,       \* history: per project, the team quota before its reservation
    naming      \* a call of make_namespace_name: its arguments and its return value

vars == <<allocs, deptq, teamq, projects, txn, budget, tasks, backend, org, hist, naming>>

\* A new request is admitted.
Admit ==
    /\ budget # 0
    /\ budget' = IF budget > 0 THEN budget - 1 ELSE budget

\* The uncommitted writes of a transaction.
NoWrites ==
    [insAlloc |-> {}, delAlloc |-> {}, insDq |-> {}, updDq |-> {},
     insTq |-> {}, updTq |-> {}, insProj |-> {}, updProj |-> {}, delOrg |-> {}]

\* A row after an UPDATE of the columns in cols.
Apply(row, cols) ==
    [c \in DOMAIN row |-> IF c \in DOMAIN cols THEN cols[c] ELSE row[c]]

\* A table after the UPDATEs upd (records [id, cols]) and the INSERTs ins.
Written(table, upd, ins) ==
    {IF \E u \in upd : u.id = r.id
     THEN Apply(r, (CHOOSE u \in upd : u.id = r.id).cols) ELSE r : r \in table}
    \cup ins

RECURSIVE SumOf(_, _)
\* The sum of column col over a set of rows (SQL's coalesce(sum(col), 0)).
SumOf(rows, col) ==
    IF rows = {} THEN 0
    ELSE LET r == CHOOSE x \in rows : TRUE
         IN r[col] + SumOf(rows \ {r}, col)

\* Row lock l is held by a transaction other than that of session s.
LockedByOther(s, l) == \E o \in Procs \ {s} : l \in txn[o].locks

Idle ==
    [op |-> "idle", pc |-> "idle", claims |-> [role |-> "none", scope_id |-> "none"],
     args |-> <<>>, loc |-> <<>>, w |-> NoWrites, locks |-> {}, result |-> "none"]

Others(s) == Procs \ {s}

\* Session s raises: the transaction rolls back (its writes are discarded and
\* its row locks released) and the request ends with the error.
Raise(s, err) ==
    txn' = [txn EXCEPT ![s].pc = "done", ![s].loc = <<>>, ![s].w = NoWrites,
                       ![s].locks = {}, ![s].result = err]

\* A request refused by its role check, before it reads any argument.
Forbidden(s, op, claims) ==
    txn' = [txn EXCEPT ![s] = [Idle EXCEPT !.op = op, !.claims = claims, !.pc = "done",
                                           !.result = "Forbidden"]]

\* What a statement of session s sees of field_server_allocations.
VisibleAllocs(s) ==
    {r \in allocs : r.id \notin txn[s].w.delAlloc} \cup txn[s].w.insAlloc

\* ------------------------------------------- field_server_allocations

\* AllocationRepository.get_server_allocation
get_server_allocation(s, server_id) ==
    {r \in VisibleAllocs(s) : r.server_id = server_id}

\* field_server_allocations without its unique index: no row ever collides.
uq_fsa_server_id_dropped(rows, server_id) == FALSE

\* UNIQUE(server_id): TRUE when the row (server_id, ...) collides with `rows`.
uq_fsa_server_id(rows, server_id) ==
    \E r \in rows : r.server_id = server_id

\* Row ids in use: committed, pending, or still referenced by a request.
AllocIdsInUse ==
    {r.id : r \in allocs}
    \cup UNION {{r.id : r \in txn[s].w.insAlloc} : s \in Sessions}
    \cup {txn[s].loc.existing :
            s \in {x \in Sessions : txn[x].op \in {"remove_server_from_field",
                                                    "swap_server_between_fields"}
                                    /\ txn[x].pc \notin {"idle", "done"}}}

FreeAllocIds == (1..MaxAllocId) \ AllocIdsInUse

\* AllocationService.assign_server_to_field up to the SELECT of
\* create_server_allocation.
assign_server_to_field(s, claims, server_id, field_id) ==
    /\ txn[s].pc = "idle"
    /\ Admit
    /\ LET call == [Idle EXCEPT !.op = "assign_server_to_field", !.claims = claims,
                                !.args = [server_id |-> server_id, field_id |-> field_id]]
       IN IF claims.role # "center_admin"
          THEN Forbidden(s, call.op, claims)
          ELSE IF get_server_allocation(s, server_id) # {}
          THEN txn' = [txn EXCEPT ![s] = [call EXCEPT !.pc = "done", !.result = "Conflict"]]
          ELSE txn' = [txn EXCEPT ![s] = [call EXCEPT !.pc = "csa_flush"]]
    /\ UNCHANGED <<naming, org, hist, allocs, deptq, teamq, projects, tasks, backend>>

\* A swap that re-creates the binding on the field it came from.
new_allocation_field_unmoved(s) ==
    IF txn[s].op = "swap_server_between_fields"
    THEN txn[s].args.from_field_id ELSE txn[s].args.field_id

\* The field_id the caller passes to create_server_allocation.
new_allocation_field(s) ==
    IF txn[s].op = "swap_server_between_fields"
    THEN txn[s].args.to_field_id ELSE txn[s].args.field_id

\* AllocationRepository.create_server_allocation: session.add + flush (the INSERT).
\* The INSERT waits while another transaction holds an uncommitted row, or an
\* uncommitted delete of a row, with the same server_id.
create_server_allocation_flush(s) ==
    /\ txn[s].pc = "csa_flush"
    /\ LET server_id == txn[s].args.server_id
           field_id == new_allocation_field(s)
       IN /\ \A o \in Others(s) :
                /\ ~ uq_fsa_server_id(txn[o].w.insAlloc, server_id)
                /\ ~ uq_fsa_server_id({r \in allocs : r.id \in txn[o].w.delAlloc}, server_id)
          /\ IF uq_fsa_server_id(VisibleAllocs(s), server_id)
             THEN Raise(s, "IntegrityError")
             ELSE /\ FreeAllocIds # {}
                  /\ LET id == CHOOSE i \in FreeAllocIds : \A j \in FreeAllocIds : i <= j
                     IN txn' = [txn EXCEPT ![s].pc = "commit",
                                    ![s].w.insAlloc = @ \cup
                                        {[id |-> id, server_id |-> server_id,
                                          field_id |-> field_id]}]
    /\ UNCHANGED <<naming, org, hist, allocs, deptq, teamq, projects, budget, tasks, backend>>

\* A cascade block that counts every department quota of the field.
field_has_any_dept_quota(field_id) ==
    Cardinality({q \in deptq : q.field_id = field_id}) > 0

\* AllocationRepository.field_has_dept_quotas
field_has_dept_quotas(field_id) ==
    Cardinality({q \in deptq : q.field_id = field_id /\ q.cpu_used > 0}) > 0

\* AllocationService.remove_server_from_field up to get_server_allocation_by_id
\* and field_has_dept_quotas.
remove_server_from_field(s, claims, allocation_id) ==
    /\ txn[s].pc = "idle"
    /\ Admit
    /\ LET call == [Idle EXCEPT !.op = "remove_server_from_field", !.claims = claims,
                                !.args = [allocation_id |-> allocation_id]]
           rows == {r \in VisibleAllocs(s) : r.id = allocation_id}
       IN IF claims.role # "center_admin"
          THEN Forbidden(s, call.op, claims)
          ELSE IF rows = {}
          THEN txn' = [txn EXCEPT ![s] = [call EXCEPT !.pc = "done", !.result = "NotFound"]]
          ELSE LET allocation == CHOOSE r \in rows : TRUE
               IN txn' = [txn EXCEPT ![s] =
                            [call EXCEPT !.pc = "remove_check",
                                         !.loc = [existing |-> allocation.id,
                                                  field_id |-> allocation.field_id]]]
    /\ UNCHANGED <<naming, org, hist, allocs, deptq, teamq, projects, tasks, backend>>

\* remove_server_from_field: the cascade block.
remove_check(s) ==
    /\ txn[s].pc = "remove_check"
    /\ IF field_has_dept_quotas(txn[s].loc.field_id)
       THEN Raise(s, "Conflict")
       ELSE txn' = [txn EXCEPT ![s].pc = "delete_alloc"]
    /\ UNCHANGED <<naming, org, hist, allocs, deptq, teamq, projects, budget, tasks, backend>>

\* AllocationService.swap_server_between_fields up to the read-then-compare.
swap_server_between_fields(s, claims, server_id, from_field_id, to_field_id) ==
    /\ txn[s].pc = "idle"
    /\ Admit
    /\ LET call == [Idle EXCEPT !.op = "swap_server_between_fields", !.claims = claims,
                                !.args = [server_id |-> server_id,
                                          from_field_id |-> from_field_id,
                                          to_field_id |-> to_field_id]]
           existing == get_server_allocation(s, server_id)
       IN IF claims.role # "center_admin"
          THEN Forbidden(s, call.op, claims)
          ELSE IF existing = {} \/ \A r \in existing : r.field_id # from_field_id
          THEN txn' = [txn EXCEPT ![s] = [call EXCEPT !.pc = "done", !.result = "Conflict"]]
          ELSE LET row == CHOOSE r \in existing : r.field_id = from_field_id
               IN txn' = [txn EXCEPT ![s] =
                            [call EXCEPT !.pc = "delete_alloc",
                                         !.loc = [existing |-> row.id,
                                                  field_id |-> row.field_id]]]
    /\ UNCHANGED <<naming, org, hist, allocs, deptq, teamq, projects, tasks, backend>>

\* A DELETE that commits on its own, outside the transaction of the request.
delete_server_allocation_autocommit(s) ==
    /\ txn[s].pc = "delete_alloc"
    /\ LET id == txn[s].loc.existing
       IN /\ \A o \in Others(s) : id \notin txn[o].w.delAlloc
          /\ allocs' = {r \in allocs : r.id # id}
          /\ txn' = [txn EXCEPT
                ![s].pc = IF txn[s].op = "swap_server_between_fields"
                          THEN "csa_select" ELSE "commit"]
    /\ UNCHANGED <<naming, org, hist, deptq, teamq, projects, budget, tasks, backend>>

\* AllocationRepository.delete_server_allocation: session.delete + flush (the
\* DELETE).  It waits for a transaction that has deleted the row and not yet
\* ended; a row that is gone by then matches nothing and the flush goes on.
delete_server_allocation(s) ==
    /\ txn[s].pc = "delete_alloc"
    /\ LET id == txn[s].loc.existing
       IN /\ \A o \in Others(s) : id \notin txn[o].w.delAlloc
          /\ txn' = [txn EXCEPT
                ![s].pc = IF txn[s].op = "swap_server_between_fields"
                          THEN "csa_select" ELSE "commit",
                ![s].w.delAlloc = IF \E r \in allocs : r.id = id
                                  THEN @ \cup {id} ELSE @]
    /\ UNCHANGED <<naming, org, hist, allocs, deptq, teamq, projects, budget, tasks, backend>>

\* AllocationRepository.create_server_allocation: the SELECT before the INSERT
\* (swap_server_between_fields reaches it after its DELETE).
create_server_allocation_select(s) ==
    /\ txn[s].pc = "csa_select"
    /\ IF get_server_allocation(s, txn[s].args.server_id) # {}
       THEN Raise(s, "Conflict")
       ELSE txn' = [txn EXCEPT ![s].pc = "csa_flush"]
    /\ UNCHANGED <<naming, org, hist, allocs, deptq, teamq, projects, budget, tasks, backend>>

\* ------------------------------------------ department_quota_allocations

\* AllocationRepository.get_field_total_cpu_ram: the cpu and ram_gb of the
\* servers bound to the field, counted when the field lies at the site.
get_field_total_cpu_ram(field_id, site) ==
    LET rows == {r \in allocs : r.field_id = field_id /\ FieldSite[r.field_id] = site}
        joined == {[id |-> r.id, cpu |-> ServerCpu[r.server_id],
                    ram_gb |-> ServerRam[r.server_id]] : r \in rows}
    IN <<SumOf(joined, "cpu"), SumOf(joined, "ram_gb")>>

\* AllocationRepository.get_dept_quota_sum_for_field_site
get_dept_quota_sum_for_field_site(field_id, site) ==
    LET rows == {q \in deptq : q.field_id = field_id /\ q.site = site}
    IN <<SumOf(rows, "cpu_limit"), SumOf(rows, "ram_gb_limit")>>

\* The rows AllocationRepository.get_dept_quota_for_update selects.
get_dept_quota_for_update(dept_id, site) ==
    {q \in deptq : q.department_id = dept_id /\ q.site = site}

\* The department quota SELECTs without with_for_update(): they never wait.
dept_quota_for_update_unlocked(s, rows) == FALSE

\* with_for_update() of the department quota SELECTs: the statement waits
\* while another transaction holds the lock of a selected row.
dept_quota_for_update_waits(s, rows) ==
    \E q \in rows : LockedByOther(s, <<"dq", q.id>>)

\* department_quota_allocations without its UNIQUE(department_id, site).
uq_dqa_department_site_dropped(rows, dept_id, site) == FALSE

\* UNIQUE(department_id, site): TRUE when the key collides with `rows`.
uq_dqa_department_site(rows, dept_id, site) ==
    \E q \in rows : q.department_id = dept_id /\ q.site = site

DeptQuotaIdsInUse ==
    {q.id : q \in deptq} \cup UNION {{q.id : q \in txn[s].w.insDq} : s \in Sessions}

\* AllocationService.create_dept_quota up to get_dept_quota_for_update.
create_dept_quota(s, claims, field_id, dept_id, site, cpu_limit, ram_gb_limit) ==
    /\ txn[s].pc = "idle"
    /\ Admit
    /\ LET call == [Idle EXCEPT !.op = "create_dept_quota", !.claims = claims,
                                !.args = [field_id |-> field_id, dept_id |-> dept_id,
                                          site |-> site, cpu_limit |-> cpu_limit,
                                          ram_gb_limit |-> ram_gb_limit]]
           existing == get_dept_quota_for_update(dept_id, site)
       IN IF claims.role # "field_admin" \/ claims.scope_id # field_id
          THEN Forbidden(s, call.op, claims)
          ELSE /\ ~ dept_quota_for_update_waits(s, existing)
               /\ IF existing # {}
                  THEN txn' = [txn EXCEPT ![s] = [call EXCEPT !.pc = "done",
                                                              !.result = "Conflict"]]
                  ELSE txn' = [txn EXCEPT ![s] = [call EXCEPT !.pc = "dq_capacity"]]
    /\ UNCHANGED <<naming, org, hist, allocs, deptq, teamq, projects, tasks, backend>>

\* AllocationService.update_dept_quota up to the checks against the used amounts.
update_dept_quota(s, claims, quota_id, cpu_limit, ram_gb_limit) ==
    /\ txn[s].pc = "idle"
    /\ Admit
    /\ LET call == [Idle EXCEPT !.op = "update_dept_quota", !.claims = claims,
                                !.args = [quota_id |-> quota_id, cpu_limit |-> cpu_limit,
                                          ram_gb_limit |-> ram_gb_limit]]
           rows == {q \in deptq : q.id = quota_id}
       IN /\ ~ dept_quota_for_update_waits(s, rows)
          /\ IF rows = {}
             THEN txn' = [txn EXCEPT ![s] = [call EXCEPT !.pc = "done",
                                                         !.result = "NotFound"]]
             ELSE LET quota == CHOOSE q \in rows : TRUE
                  IN IF claims.role # "field_admin" \/ claims.scope_id # quota.field_id
                     THEN txn' = [txn EXCEPT ![s] = [call EXCEPT !.pc = "done",
                                                                 !.result = "Forbidden"]]
                     ELSE IF cpu_limit < quota.cpu_used \/ ram_gb_limit < quota.ram_gb_used
                     THEN txn' = [txn EXCEPT ![s] = [call EXCEPT !.pc = "done",
                                                        !.result = "QuotaExceeded"]]
                     ELSE txn' = [txn EXCEPT ![s] =
                                    [call EXCEPT !.pc = "dq_capacity",
                                                 !.loc = [quota |-> quota],
                                                 !.locks = {<<"dq", quota.id>>}]]
    /\ UNCHANGED <<naming, org, hist, allocs, deptq, teamq, projects, tasks, backend>>

\* The field and site a department quota request is checked against.
DeptRequestField(s) ==
    IF txn[s].op = "create_dept_quota" THEN txn[s].args.field_id
    ELSE txn[s].loc.quota.field_id

DeptRequestSite(s) ==
    IF txn[s].op = "create_dept_quota" THEN txn[s].args.site
    ELSE txn[s].loc.quota.site

\* create_dept_quota, update_dept_quota: the get_field_total_cpu_ram statement.
dept_quota_read_capacity(s) ==
    /\ txn[s].pc = "dq_capacity"
    /\ LET total == get_field_total_cpu_ram(DeptRequestField(s), DeptRequestSite(s))
       IN txn' = [txn EXCEPT ![s].pc = "dq_sum",
                             ![s].loc = [quota |-> IF txn[s].op = "update_dept_quota"
                                                   THEN txn[s].loc.quota ELSE <<>>,
                                         field_cpu |-> total[1],
                                         field_ram |-> total[2]]]
    /\ UNCHANGED <<naming, org, hist, allocs, deptq, teamq, projects, budget, tasks, backend>>

\* create_dept_quota, update_dept_quota: get_dept_quota_sum_for_field_site and
\* the headroom checks; update_dept_quota then assigns the new limits.
dept_quota_check_headroom(s) ==
    /\ txn[s].pc = "dq_sum"
    /\ LET used == get_dept_quota_sum_for_field_site(DeptRequestField(s),
                                                     DeptRequestSite(s))
           creating == txn[s].op = "create_dept_quota"
           delta_cpu == IF creating THEN txn[s].args.cpu_limit
                        ELSE txn[s].args.cpu_limit - txn[s].loc.quota.cpu_limit
           delta_ram == IF creating THEN txn[s].args.ram_gb_limit
                        ELSE txn[s].args.ram_gb_limit - txn[s].loc.quota.ram_gb_limit
       IN IF \/ used[1] + delta_cpu > txn[s].loc.field_cpu
             \/ used[2] + delta_ram > txn[s].loc.field_ram
          THEN Raise(s, "QuotaExceeded")
          ELSE IF creating
          THEN txn' = [txn EXCEPT ![s].pc = "dq_flush"]
          ELSE txn' = [txn EXCEPT ![s].pc = "commit",
                          ![s].w.updDq = {[id |-> txn[s].loc.quota.id,
                                           cols |-> [cpu_limit |-> txn[s].args.cpu_limit,
                                                     ram_gb_limit |->
                                                        txn[s].args.ram_gb_limit]]}]
    /\ UNCHANGED <<naming, org, hist, allocs, deptq, teamq, projects, budget, tasks, backend>>

\* AllocationRepository.create_dept_quota: session.add + flush (the INSERT).
\* It waits for a transaction that has inserted the key or deleted the field
\* or the department; a duplicate key and a missing parent row (foreign key)
\* raise IntegrityError.
create_dept_quota_flush(s) ==
    /\ txn[s].pc = "dq_flush"
    /\ LET a == txn[s].args
       IN /\ \A o \in Others(s) : ~ uq_dqa_department_site(txn[o].w.insDq, a.dept_id, a.site)
          /\ \A o \in Others(s) : /\ <<"fields", a.field_id>> \notin txn[o].w.delOrg
                                  /\ <<"departments", a.dept_id>> \notin txn[o].w.delOrg
          /\ IF \/ uq_dqa_department_site(deptq, a.dept_id, a.site)
                \/ a.field_id \notin org.fields
                \/ a.dept_id \notin org.departments
             THEN Raise(s, "IntegrityError")
             ELSE /\ (1..MaxQuotaId) \ DeptQuotaIdsInUse # {}
                  /\ LET free == (1..MaxQuotaId) \ DeptQuotaIdsInUse
                         id == CHOOSE i \in free : \A j \in free : i <= j
                     IN txn' = [txn EXCEPT ![s].pc = "commit",
                                    ![s].w.insDq =
                                        {[id |-> id, field_id |-> a.field_id,
                                          department_id |-> a.dept_id, site |-> a.site,
                                          cpu_limit |-> a.cpu_limit,
                                          ram_gb_limit |-> a.ram_gb_limit,
                                          cpu_used |-> 0, ram_gb_used |-> 0]}]
    /\ UNCHANGED <<naming, org, hist, allocs, deptq, teamq, projects, budget, tasks, backend>>

\* ------------------------------------------------ team_quota_allocations

\* AllocationRepository.get_team_quota_sum_for_dept_site
get_team_quota_sum_for_dept_site(dept_id, site) ==
    LET rows == {q \in teamq : q.department_id = dept_id /\ q.site = site}
    IN <<SumOf(rows, "cpu_limit"), SumOf(rows, "ram_gb_limit")>>

\* The rows AllocationRepository.get_team_quota_for_update selects.
get_team_quota_for_update(team_id, site) ==
    {q \in teamq : q.team_id = team_id /\ q.site = site}

\* with_for_update() of the team quota SELECTs: the statement waits while
\* another transaction holds the lock of a selected row.
team_quota_for_update_waits(s, rows) ==
    \E q \in rows : LockedByOther(s, <<"tq", q.id>>)

\* UNIQUE(team_id, site): TRUE when the key collides with `rows`.
uq_tqa_team_site(rows, team_id, site) ==
    \E q \in rows : q.team_id = team_id /\ q.site = site

TeamQuotaIdsInUse ==
    {q.id : q \in teamq} \cup UNION {{q.id : q \in txn[s].w.insTq} : s \in Sessions}

\* AllocationService.create_team_quota up to get_team_quota_for_update.
create_team_quota(s, claims, dept_id, team_id, site, cpu_limit, ram_gb_limit) ==
    /\ txn[s].pc = "idle"
    /\ Admit
    /\ LET call == [Idle EXCEPT !.op = "create_team_quota", !.claims = claims,
                                !.args = [dept_id |-> dept_id, team_id |-> team_id,
                                          site |-> site, cpu_limit |-> cpu_limit,
                                          ram_gb_limit |-> ram_gb_limit]]
           existing == get_team_quota_for_update(team_id, site)
       IN IF claims.role # "dept_admin" \/ claims.scope_id # dept_id
          THEN Forbidden(s, call.op, claims)
          ELSE /\ ~ team_quota_for_update_waits(s, existing)
               /\ IF existing # {}
                  THEN txn' = [txn EXCEPT ![s] = [call EXCEPT !.pc = "done",
                                                              !.result = "Conflict"]]
                  ELSE txn' = [txn EXCEPT ![s] = [call EXCEPT !.pc = "tq_dept"]]
    /\ UNCHANGED <<naming, org, hist, allocs, deptq, teamq, projects, tasks, backend>>

\* AllocationService.update_team_quota up to the checks against the used amounts.
update_team_quota(s, claims, quota_id, cpu_limit, ram_gb_limit) ==
    /\ txn[s].pc = "idle"
    /\ Admit
    /\ LET call == [Idle EXCEPT !.op = "update_team_quota", !.claims = claims,
                                !.args = [quota_id |-> quota_id, cpu_limit |-> cpu_limit,
                                          ram_gb_limit |-> ram_gb_limit]]
           rows == {q \in teamq : q.id = quota_id}
       IN /\ ~ team_quota_for_update_waits(s, rows)
          /\ IF rows = {}
             THEN txn' = [txn EXCEPT ![s] = [call EXCEPT !.pc = "done",
                                                         !.result = "NotFound"]]
             ELSE LET quota == CHOOSE q \in rows : TRUE
                  IN IF claims.role # "dept_admin" \/ claims.scope_id # quota.department_id
                     THEN txn' = [txn EXCEPT ![s] = [call EXCEPT !.pc = "done",
                                                                 !.result = "Forbidden"]]
                     ELSE IF cpu_limit < quota.cpu_used \/ ram_gb_limit < quota.ram_gb_used
                     THEN txn' = [txn EXCEPT ![s] = [call EXCEPT !.pc = "done",
                                                        !.result = "QuotaExceeded"]]
                     ELSE txn' = [txn EXCEPT ![s] =
                                    [call EXCEPT !.pc = "tq_dept",
                                                 !.loc = [quota |-> quota],
                                                 !.locks = {<<"tq", quota.id>>}]]
    /\ UNCHANGED <<naming, org, hist, allocs, deptq, teamq, projects, tasks, backend>>

\* The department and site a team quota request is checked against.
TeamRequestDept(s) ==
    IF txn[s].op = "create_team_quota" THEN txn[s].args.dept_id
    ELSE txn[s].loc.quota.department_id

TeamRequestSite(s) ==
    IF txn[s].op = "create_team_quota" THEN txn[s].args.site
    ELSE txn[s].loc.quota.site

\* An update_team_quota that assigns cpu_limit alone.
team_quota_cpu_limit_only(s) ==
    {[id |-> txn[s].loc.quota.id, cols |-> [cpu_limit |-> txn[s].args.cpu_limit]]}

\* The UPDATE update_team_quota flushes at commit.
team_quota_new_limits(s) ==
    {[id |-> txn[s].loc.quota.id,
      cols |-> [cpu_limit |-> txn[s].args.cpu_limit,
                ram_gb_limit |-> txn[s].args.ram_gb_limit]]}

\* create_team_quota, update_team_quota: get_dept_quota_for_update on the
\* parent row.  Without a parent row create_team_quota raises and
\* update_team_quota assigns the new limits unchecked.
team_quota_lock_dept(s) ==
    /\ txn[s].pc = "tq_dept"
    /\ LET rows == get_dept_quota_for_update(TeamRequestDept(s), TeamRequestSite(s))
           creating == txn[s].op = "create_team_quota"
       IN /\ ~ dept_quota_for_update_waits(s, rows)
          /\ IF rows = {}
             THEN IF creating
                  THEN Raise(s, "QuotaExceeded")
                  ELSE txn' = [txn EXCEPT ![s].pc = "commit",
                                          ![s].w.updTq = team_quota_new_limits(s)]
             ELSE LET dept_quota == CHOOSE q \in rows : TRUE
                  IN txn' = [txn EXCEPT ![s].pc = "tq_sum",
                                 ![s].loc = [quota |-> IF creating THEN <<>>
                                                       ELSE txn[s].loc.quota,
                                             dept_quota |-> dept_quota],
                                 ![s].locks = @ \cup {<<"dq", dept_quota.id>>}]
    /\ UNCHANGED <<naming, org, hist, allocs, deptq, teamq, projects, budget, tasks, backend>>

\* create_team_quota, update_team_quota: get_team_quota_sum_for_dept_site and
\* the headroom checks; update_team_quota then assigns the new limits.
team_quota_check_headroom(s) ==
    /\ txn[s].pc = "tq_sum"
    /\ LET used == get_team_quota_sum_for_dept_site(TeamRequestDept(s), TeamRequestSite(s))
           creating == txn[s].op = "create_team_quota"
           dept_quota == txn[s].loc.dept_quota
           delta_cpu == IF creating THEN txn[s].args.cpu_limit
                        ELSE txn[s].args.cpu_limit - txn[s].loc.quota.cpu_limit
           delta_ram == IF creating THEN txn[s].args.ram_gb_limit
                        ELSE txn[s].args.ram_gb_limit - txn[s].loc.quota.ram_gb_limit
       IN IF \/ used[1] + delta_cpu > dept_quota.cpu_limit
             \/ used[2] + delta_ram > dept_quota.ram_gb_limit
          THEN Raise(s, "QuotaExceeded")
          ELSE IF creating
          THEN txn' = [txn EXCEPT ![s].pc = "tq_flush"]
          ELSE txn' = [txn EXCEPT ![s].pc = "commit",
                                  ![s].w.updTq = team_quota_new_limits(s)]
    /\ UNCHANGED <<naming, org, hist, allocs, deptq, teamq, projects, budget, tasks, backend>>

\* AllocationRepository.create_team_quota: session.add + flush (the INSERT).
\* It waits for a transaction that has inserted the key or deleted the team or
\* the department; a duplicate key and a missing parent row (foreign key)
\* raise IntegrityError.
create_team_quota_flush(s) ==
    /\ txn[s].pc = "tq_flush"
    /\ LET a == txn[s].args
       IN /\ \A o \in Others(s) : ~ uq_tqa_team_site(txn[o].w.insTq, a.team_id, a.site)
          /\ \A o \in Others(s) : /\ <<"teams", a.team_id>> \notin txn[o].w.delOrg
                                  /\ <<"departments", a.dept_id>> \notin txn[o].w.delOrg
          /\ IF \/ uq_tqa_team_site(teamq, a.team_id, a.site)
                \/ a.team_id \notin org.teams
                \/ a.dept_id \notin org.departments
             THEN Raise(s, "IntegrityError")
             ELSE /\ (1..MaxQuotaId) \ TeamQuotaIdsInUse # {}
                  /\ LET free == (1..MaxQuotaId) \ TeamQuotaIdsInUse
                         id == CHOOSE i \in free : \A j \in free : i <= j
                     IN txn' = [txn EXCEPT ![s].pc = "commit",
                                    ![s].w.insTq =
                                        {[id |-> id, department_id |-> a.dept_id,
                                          team_id |-> a.team_id, site |-> a.site,
                                          cpu_limit |-> a.cpu_limit,
                                          ram_gb_limit |-> a.ram_gb_limit,
                                          cpu_used |-> 0, ram_gb_used |-> 0]}]
    /\ UNCHANGED <<naming, org, hist, allocs, deptq, teamq, projects, budget, tasks, backend>>

\* --------------------------------------------------------------- projects

\* The rows ProjectRepository.get_team_quota_for_update selects.
project_get_team_quota_for_update(team_id, site) ==
    {q \in teamq : q.team_id = team_id /\ q.site = site}

\* ProjectRepository.get_team_quota_for_update without with_for_update().
project_team_quota_for_update_unlocked(s, rows) == FALSE

\* with_for_update() of ProjectRepository.get_team_quota_for_update: the
\* statement waits while another transaction holds the lock of a selected row.
project_team_quota_for_update_waits(s, rows) ==
    \E q \in rows : LockedByOther(s, <<"tq", q.id>>)

\* with_for_update() of the projects SELECTs.
project_for_update_waits(s, rows) ==
    \E r \in rows : LockedByOther(s, <<"proj", r.id>>)

\* UNIQUE(namespace_name): TRUE when the name collides with `rows`.
uq_projects_namespace_name(rows, namespace_name) ==
    \E r \in rows : r.namespace_name = namespace_name

ProjectIdsInUse ==
    {r.id : r \in projects} \cup UNION {{r.id : r \in txn[s].w.insProj} : s \in Sessions}

\* schemas.project.CreateProjectRequest: validate_sla_type and
\* validate_performance_tier accept the body.
CreateProjectRequest(sla_type, performance_tier) ==
    /\ sla_type \in {"bronze", "silver", "gold"}
    /\ performance_tier \in {"regular", "high_performance"}

\* POST /projects: the body is validated (a refused body is answered with
\* 422 before the service is called), then ProjectService.create_project up
\* to the quota checks.
create_project(s, claims, name, site, sla_type, performance_tier) ==
    /\ txn[s].pc = "idle"
    /\ Admit
    /\ LET call == [Idle EXCEPT !.op = "create_project", !.claims = claims,
                                !.args = [name |-> name, site |-> site,
                                          sla_type |-> sla_type,
                                          performance_tier |-> performance_tier]]
           team_id == claims.scope_id
           required == get_quota(sla_type, performance_tier)
           rows == project_get_team_quota_for_update(team_id, site)
       IN IF ~ CreateProjectRequest(sla_type, performance_tier)
          THEN txn' = [txn EXCEPT ![s] = [call EXCEPT !.pc = "done",
                                                      !.result = "ValidationError"]]
          ELSE IF claims.role # "team_lead"
          THEN Forbidden(s, call.op, claims)
          ELSE /\ ~ project_team_quota_for_update_waits(s, rows)
               /\ IF rows = {}
                  THEN txn' = [txn EXCEPT ![s] = [call EXCEPT !.pc = "done",
                                                              !.result = "QuotaExceeded"]]
                  ELSE LET quota == CHOOSE q \in rows : TRUE
                       IN IF \/ quota.cpu_used + required[1] > quota.cpu_limit
                             \/ quota.ram_gb_used + required[2] > quota.ram_gb_limit
                          THEN txn' = [txn EXCEPT ![s] = [call EXCEPT !.pc = "done",
                                                             !.result = "QuotaExceeded"]]
                          ELSE txn' = [txn EXCEPT ![s] =
                                         [call EXCEPT !.pc = "proj_flush",
                                                      !.loc = [quota |-> quota],
                                                      !.locks = {<<"tq", quota.id>>}]]
    /\ UNCHANGED <<naming, org, hist, allocs, deptq, teamq, projects, tasks, backend>>

\* A create_project that selects the project rows of the team and the inserted
\* row FOR UPDATE while it holds the team quota row.
create_project_flush_locks_project(s) ==
    /\ txn[s].pc = "proj_flush"
    /\ LET a == txn[s].args
           team_id == txn[s].claims.scope_id
           required == get_quota(a.sla_type, a.performance_tier)
           namespace_name == make_namespace_name(TeamIdText[team_id], a.name)
           quota == txn[s].loc.quota
           mine == {r \in projects : r.team_id = team_id}
       IN /\ \A r \in mine : ~ LockedByOther(s, <<"proj", r.id>>)
          /\ \A o \in Others(s) : ~ uq_projects_namespace_name(txn[o].w.insProj, namespace_name)
          /\ IF uq_projects_namespace_name(projects, namespace_name)
             THEN Raise(s, "IntegrityError")
             ELSE /\ (1..MaxProjectId) \ ProjectIdsInUse # {}
                  /\ LET free == (1..MaxProjectId) \ ProjectIdsInUse
                         id == CHOOSE i \in free : \A j \in free : i <= j
                     IN txn' = [txn EXCEPT ![s].pc = "commit",
                                    ![s].locks = @ \cup {<<"proj", id>>}
                                                   \cup {<<"proj", r.id>> : r \in mine},
                                    ![s].w.insProj =
                                        {[id |-> id, name |-> a.name, team_id |-> team_id,
                                          site |-> a.site,
                                          namespace_name |-> namespace_name,
                                          status |-> "provisioning",
                                          quota_cpu |-> required[1],
                                          quota_ram_gb |-> required[2],
                                          deleted_at |-> "NULL"]},
                                    ![s].w.updTq =
                                        {[id |-> quota.id,
                                          cols |-> [cpu_used |-> quota.cpu_used + required[1],
                                                    ram_gb_used |->
                                                        quota.ram_gb_used + required[2]]]}]
    /\ UNCHANGED <<naming, org, hist, allocs, deptq, teamq, projects, budget, tasks, backend>>

\* A create_project that debits the department quota of the team as well.
create_project_flush_debits_department(s) ==
    /\ txn[s].pc = "proj_flush"
    /\ LET a == txn[s].args
           team_id == txn[s].claims.scope_id
           required == get_quota(a.sla_type, a.performance_tier)
           namespace_name == make_namespace_name(TeamIdText[team_id], a.name)
           quota == txn[s].loc.quota
       IN /\ \A o \in Others(s) : ~ uq_projects_namespace_name(txn[o].w.insProj, namespace_name)
          /\ IF uq_projects_namespace_name(projects, namespace_name)
             THEN Raise(s, "IntegrityError")
             ELSE /\ (1..MaxProjectId) \ ProjectIdsInUse # {}
                  /\ LET free == (1..MaxProjectId) \ ProjectIdsInUse
                         id == CHOOSE i \in free : \A j \in free : i <= j
                     IN txn' = [txn EXCEPT ![s].pc = "commit",
                                    ![s].w.insProj =
                                        {[id |-> id, name |-> a.name, team_id |-> team_id,
                                          site |-> a.site,
                                          namespace_name |-> namespace_name,
                                          status |-> "provisioning",
                                          quota_cpu |-> required[1],
                                          quota_ram_gb |-> required[2],
                                          deleted_at |-> "NULL"]},
                                    ![s].w.updDq =
                                        {[id |-> dq.id,
                                          cols |-> [cpu_used |-> dq.cpu_used + required[1],
                                                    ram_gb_used |->
                                                        dq.ram_gb_used + required[2]]] :
                                            dq \in {d \in deptq :
                                                        /\ d.department_id = quota.department_id
                                                        /\ d.site = quota.site}},
                                    ![s].w.updTq =
                                        {[id |-> quota.id,
                                          cols |-> [cpu_used |-> quota.cpu_used + required[1],
                                                    ram_gb_used |->
                                                        quota.ram_gb_used + required[2]]]}]
    /\ UNCHANGED <<naming, org, hist, allocs, deptq, teamq, projects, budget, tasks, backend>>

\* ProjectRepository.create_project (the INSERT) and the debit of the team
\* quota row read under the lock.
create_project_flush(s) ==
    /\ txn[s].pc = "proj_flush"
    /\ LET a == txn[s].args
           team_id == txn[s].claims.scope_id
           required == get_quota(a.sla_type, a.performance_tier)
           namespace_name == make_namespace_name(TeamIdText[team_id], a.name)
           quota == txn[s].loc.quota
       IN /\ \A o \in Others(s) : ~ uq_projects_namespace_name(txn[o].w.insProj, namespace_name)
          /\ IF uq_projects_namespace_name(projects, namespace_name)
             THEN Raise(s, "IntegrityError")
             ELSE /\ (1..MaxProjectId) \ ProjectIdsInUse # {}
                  /\ LET free == (1..MaxProjectId) \ ProjectIdsInUse
                         id == CHOOSE i \in free : \A j \in free : i <= j
                     IN txn' = [txn EXCEPT ![s].pc = "commit",
                                    ![s].w.insProj =
                                        {[id |-> id, name |-> a.name, team_id |-> team_id,
                                          site |-> a.site,
                                          namespace_name |-> namespace_name,
                                          status |-> "provisioning",
                                          quota_cpu |-> required[1],
                                          quota_ram_gb |-> required[2],
                                          deleted_at |-> "NULL"]},
                                    ![s].w.updTq =
                                        {[id |-> quota.id,
                                          cols |-> [cpu_used |-> quota.cpu_used + required[1],
                                                    ram_gb_used |->
                                                        quota.ram_gb_used + required[2]]]}]
    /\ UNCHANGED <<naming, org, hist, allocs, deptq, teamq, projects, budget, tasks, backend>>

\* ProjectRepository.list_projects: the rows whose deleted_at is NULL, of one
\* team when team_id is given ("None": of every team).
list_projects(team_id) ==
    {r \in projects : r.deleted_at = "NULL" /\ (team_id = "None" \/ r.team_id = team_id)}

\* max(0, used - amount)
credit(used, amount) == IF used - amount > 0 THEN used - amount ELSE 0

\* A rollback that credits nothing.
credit_team_quota_skipped(rows, project) == {}

\* The UPDATE of the team quota row that credits a project's reservation.
credit_team_quota(rows, project) ==
    {[id |-> q.id,
      cols |-> [cpu_used |-> credit(q.cpu_used, project.quota_cpu),
                ram_gb_used |-> credit(q.ram_gb_used, project.quota_ram_gb)]] : q \in rows}

set_status(project, status) == {[id |-> project.id, cols |-> [status |-> status]]}

\* ProjectService.delete_project up to the team check.
delete_project(s, claims, project_id) ==
    /\ txn[s].pc = "idle"
    /\ Admit
    /\ LET call == [Idle EXCEPT !.op = "delete_project", !.claims = claims,
                                !.args = [project_id |-> project_id]]
           rows == {r \in projects : r.id = project_id}
       IN IF claims.role # "team_lead"
          THEN Forbidden(s, call.op, claims)
          ELSE /\ ~ project_for_update_waits(s, rows)
               /\ IF rows = {}
                  THEN txn' = [txn EXCEPT ![s] = [call EXCEPT !.pc = "done",
                                                              !.result = "NotFound"]]
                  ELSE LET project == CHOOSE r \in rows : TRUE
                       IN IF project.team_id # claims.scope_id
                          THEN txn' = [txn EXCEPT ![s] = [call EXCEPT !.pc = "done",
                                                             !.result = "Forbidden"]]
                          ELSE IF project.quota_cpu # 0 /\ project.site # ""
                          THEN txn' = [txn EXCEPT ![s] =
                                         [call EXCEPT !.pc = "del_credit",
                                                      !.loc = [project |-> project],
                                                      !.locks = {<<"proj", project.id>>}]]
                          ELSE txn' = [txn EXCEPT ![s] =
                                         [call EXCEPT !.pc = "commit",
                                                      !.loc = [project |-> project],
                                                      !.locks = {<<"proj", project.id>>},
                                                      !.w.updProj =
                                                          set_status(project, "deleting")]]
    /\ UNCHANGED <<naming, org, hist, allocs, deptq, teamq, projects, tasks, backend>>

\* delete_project: the locked SELECT of the team quota row, the credit and
\* the status change.
delete_project_credit(s) ==
    /\ txn[s].pc = "del_credit"
    /\ LET project == txn[s].loc.project
           rows == {q \in teamq : q.team_id = project.team_id /\ q.site = project.site}
       IN /\ ~ team_quota_for_update_waits(s, rows)
          /\ txn' = [txn EXCEPT ![s].pc = "commit",
                         ![s].locks = @ \cup {<<"tq", q.id>> : q \in rows},
                         ![s].w.updTq = credit_team_quota(rows, project),
                         ![s].w.updProj = set_status(project, "deleting")]
    /\ UNCHANGED <<naming, org, hist, allocs, deptq, teamq, projects, budget, tasks, backend>>

\* ------------------------------------------------------- background tasks

POLL_INTERVAL_SECONDS == 10
POLL_TIMEOUT_SECONDS == 300

\* The polls at which ArgoCD may first report Synced and Healthy: the first,
\* the last before the timeout, or none.
SyncedAtInputs ==
    {1, POLL_TIMEOUT_SECONDS \div POLL_INTERVAL_SECONDS,
     POLL_TIMEOUT_SECONDS \div POLL_INTERVAL_SECONDS + 1}

RECURSIVE PollLoop(_, _, _)
\* The while loop of poll_argocd_until_synced when ArgoCD first reports
\* Synced and Healthy at poll number synced_at: the status it sets and the
\* number of polls it made.
PollLoop(elapsed, polls, synced_at) ==
    IF elapsed < POLL_TIMEOUT_SECONDS
    THEN IF polls + 1 = synced_at THEN [status |-> "active", polls |-> polls + 1]
         ELSE PollLoop(elapsed + POLL_INTERVAL_SECONDS, polls + 1, synced_at)
    ELSE [status |-> "failed", polls |-> polls]

\* A worker starts one of the created tasks.
start_task(w) ==
    /\ txn[w].pc = "idle"
    /\ \E i \in 1..Len(tasks) :
        /\ txn' = [txn EXCEPT ![w] =
                     [Idle EXCEPT !.op = tasks[i].kind,
                                  !.args = [project_id |-> tasks[i].project_id],
                                  !.pc = IF tasks[i].kind = "poll_argocd_until_synced"
                                         THEN "poll" ELSE "task_read"]]
        /\ tasks' = SubSeq(tasks, 1, i - 1) \o SubSeq(tasks, i + 1, Len(tasks))
    /\ UNCHANGED <<naming, org, hist, allocs, deptq, teamq, projects, budget, backend>>

\* A task that reads its project with get_by_id_for_update in a transaction
\* it keeps open over the backend call.
task_get_by_id_for_update(w) ==
    /\ txn[w].pc = "task_read"
    /\ LET rows == {r \in projects : r.id = txn[w].args.project_id}
       IN /\ ~ project_for_update_waits(w, rows)
          /\ IF rows = {}
             THEN IF txn[w].op = "_provision_and_poll"
                  THEN txn' = [txn EXCEPT ![w].pc = "rb_project"]
                  ELSE Raise(w, "logged")
             ELSE txn' = [txn EXCEPT ![w].pc = IF txn[w].op = "_provision_and_poll"
                                               THEN "provision" ELSE "deprovision",
                                     ![w].loc = [project |-> CHOOSE r \in rows : TRUE],
                                     ![w].locks = {<<"proj", r.id>> : r \in rows}]
    /\ UNCHANGED <<naming, org, hist, allocs, deptq, teamq, projects, budget, tasks, backend>>

\* _provision_and_poll, _deprovision: repo.get_by_id in a session of its own.
task_get_by_id(w) ==
    /\ txn[w].pc = "task_read"
    /\ LET rows == {r \in projects : r.id = txn[w].args.project_id}
       IN IF rows = {}
          THEN IF txn[w].op = "_provision_and_poll"
               THEN txn' = [txn EXCEPT ![w].pc = "rb_project"]
               ELSE Raise(w, "logged")
          ELSE txn' = [txn EXCEPT ![w].pc = IF txn[w].op = "_provision_and_poll"
                                            THEN "provision" ELSE "deprovision",
                                  ![w].loc = [project |-> CHOOSE r \in rows : TRUE]]
    /\ UNCHANGED <<naming, org, hist, allocs, deptq, teamq, projects, budget, tasks, backend>>

\* A _provision_and_poll that logs the exception of provision and returns.
provision_exception_logged(w) ==
    /\ txn[w].pc = "provision"
    /\ LET ns == txn[w].loc.project.namespace_name
           added == [backend EXCEPT ![ns] = @ + 1]
       IN \/ /\ backend' = added
             /\ tasks' = Append(tasks, [kind |-> "poll_argocd_until_synced",
                                        project_id |-> txn[w].args.project_id])
             /\ txn' = [txn EXCEPT ![w].pc = "done", ![w].loc = <<>>, ![w].result = "ok"]
          \/ /\ backend' \in {backend, added}
             /\ tasks' = tasks
             /\ txn' = [txn EXCEPT ![w].pc = "done", ![w].loc = <<>>,
                                   ![w].result = "logged"]
    /\ UNCHANGED <<naming, org, hist, allocs, deptq, teamq, projects, budget>>

\* GitArgoProvisioner.provision: the entry is appended to values.yaml, then
\* git and the ArgoCD sync run; each of them can raise.  On success the
\* poller task is created, on an exception _rollback_quota_and_fail runs.
provision(w) ==
    /\ txn[w].pc = "provision"
    /\ LET ns == txn[w].loc.project.namespace_name
           added == [backend EXCEPT ![ns] = @ + 1]
       IN \/ /\ backend' = added
             /\ tasks' = Append(tasks, [kind |-> "poll_argocd_until_synced",
                                        project_id |-> txn[w].args.project_id])
             /\ txn' = [txn EXCEPT ![w].pc = "done", ![w].loc = <<>>, ![w].result = "ok"]
          \/ /\ backend' \in {backend, added}
             /\ tasks' = tasks
             /\ txn' = [txn EXCEPT ![w].pc = "rb_project", ![w].loc = <<>>]
    /\ UNCHANGED <<naming, org, hist, allocs, deptq, teamq, projects, budget>>

\* _rollback_quota_and_fail invoked for a project, outside _provision_and_poll.
rollback_quota_and_fail(w, project_id) ==
    /\ txn[w].pc = "idle"
    /\ Admit
    /\ txn' = [txn EXCEPT ![w] = [Idle EXCEPT !.op = "_rollback_quota_and_fail",
                                              !.args = [project_id |-> project_id],
                                              !.pc = "rb_project"]]
    /\ UNCHANGED <<naming, org, hist, allocs, deptq, teamq, projects, tasks, backend>>

\* _rollback_quota_and_fail: repo.get_by_id_for_update.
rollback_lock_project(w) ==
    /\ txn[w].pc = "rb_project"
    /\ LET rows == {r \in projects : r.id = txn[w].args.project_id}
       IN /\ ~ project_for_update_waits(w, rows)
          /\ IF rows = {}
             THEN Raise(w, "logged")
             ELSE LET project == CHOOSE r \in rows : TRUE
                  IN IF project.quota_cpu # 0 /\ project.quota_ram_gb # 0
                     THEN txn' = [txn EXCEPT ![w].pc = "rb_credit",
                                             ![w].loc = [project |-> project],
                                             ![w].locks = {<<"proj", project.id>>}]
                     ELSE txn' = [txn EXCEPT ![w].pc = "commit",
                                             ![w].loc = [project |-> project],
                                             ![w].locks = {<<"proj", project.id>>},
                                             ![w].w.updProj = set_status(project, "failed")]
    /\ UNCHANGED <<naming, org, hist, allocs, deptq, teamq, projects, budget, tasks, backend>>

\* _rollback_quota_and_fail: the locked SELECT of the team quota row, the
\* credit and the status change.
rollback_credit(w) ==
    /\ txn[w].pc = "rb_credit"
    /\ LET project == txn[w].loc.project
           rows == {q \in teamq : q.team_id = project.team_id /\ q.site = project.site}
       IN /\ ~ team_quota_for_update_waits(w, rows)
          /\ txn' = [txn EXCEPT ![w].pc = "commit",
                         ![w].locks = @ \cup {<<"tq", q.id>> : q \in rows},
                         ![w].w.updTq = credit_team_quota(rows, project),
                         ![w].w.updProj = set_status(project, "failed")]
    /\ UNCHANGED <<naming, org, hist, allocs, deptq, teamq, projects, budget, tasks, backend>>

\* poll_argocd_until_synced: the polling loop, which touches no row.
poll_argocd_until_synced(w) ==
    /\ txn[w].pc = "poll"
    /\ \E synced_at \in SyncedAtInputs :
        txn' = [txn EXCEPT ![w].pc = "set_status",
                           ![w].loc = PollLoop(0, 0, synced_at)]
    /\ UNCHANGED <<naming, org, hist, allocs, deptq, teamq, projects, budget, tasks, backend>>

\* A _set_project_status that also credits the reservation back.
update_status_and_credit(w) ==
    /\ txn[w].pc = "set_status"
    /\ LET rows == {r \in projects : r.id = txn[w].args.project_id}
           quotas == {q \in teamq : \E r \in rows : q.team_id = r.team_id /\ q.site = r.site}
       IN /\ ~ project_for_update_waits(w, rows)
          /\ ~ team_quota_for_update_waits(w, quotas)
          /\ txn' = [txn EXCEPT ![w].pc = "commit",
                         ![w].locks = {<<"proj", r.id>> : r \in rows}
                                          \cup {<<"tq", q.id>> : q \in quotas},
                         ![w].w.updTq =
                            UNION {credit_team_quota(quotas, r) : r \in rows},
                         ![w].w.updProj = {[id |-> r.id,
                                            cols |-> [status |-> txn[w].loc.status]] :
                                                r \in rows}]
    /\ UNCHANGED <<naming, org, hist, allocs, deptq, teamq, projects, budget, tasks, backend>>

\* _set_project_status: ProjectRepository.update_status.
update_status(w) ==
    /\ txn[w].pc = "set_status"
    /\ LET rows == {r \in projects : r.id = txn[w].args.project_id}
       IN /\ ~ project_for_update_waits(w, rows)
          /\ txn' = [txn EXCEPT ![w].pc = "commit",
                         ![w].locks = {<<"proj", r.id>> : r \in rows},
                         ![w].w.updProj = {[id |-> r.id,
                                            cols |-> [status |-> txn[w].loc.status]] :
                                                r \in rows}]
    /\ UNCHANGED <<naming, org, hist, allocs, deptq, teamq, projects, budget, tasks, backend>>

\* The prefix test behind `f"  - name: {namespace_name}" in line`.
IsPrefix(a, b) == Len(a) <= Len(b) /\ SubSeq(b, 1, Len(a)) = a

\* GitArgoProvisioner._remove_namespace_entry
remove_namespace_entry(namespace_name) ==
    [ns \in Namespaces |-> IF IsPrefix(namespace_name, ns) THEN 0 ELSE backend[ns]]

\* GitArgoProvisioner.deprovision: the entries are removed from values.yaml,
\* then git and the ArgoCD sync run; an exception is logged.
deprovision(w) ==
    /\ txn[w].pc = "deprovision"
    /\ LET ns == txn[w].loc.project.namespace_name
       IN IF ns # <<>>
          THEN backend' \in {backend, remove_namespace_entry(ns)}
          ELSE backend' = backend
    /\ txn' = [txn EXCEPT ![w].pc = "done", ![w].loc = <<>>, ![w].result = "ok"]
    /\ UNCHANGED <<naming, org, hist, allocs, deptq, teamq, projects, budget, tasks>>

\* ---------------------------------------------------------------- history

\* The operations that run _rollback_quota_and_fail.
RollbackOps == {"_provision_and_poll", "_rollback_quota_and_fail"}

\* Nothing is recorded for a project that was never created.
NoHistory ==
    [j \in 1..MaxProjectId |->
        [cpu_used |-> 0, ram_gb_used |-> 0, intact |-> FALSE, rollbacks |-> 0]]

\* The history after the commit of session s.  For the project a create_project
\* inserts: the used amounts of its team quota row as read under the lock,
\* before the debit.  For the project a rollback ran for: one more rollback.
\* For every other project of a team quota row the transaction writes: the
\* row was changed by another operation since the project reserved from it.
Recorded(s) ==
    LET written == {u.id : u \in txn[s].w.updTq}
        created == {r.id : r \in txn[s].w.insProj}
    IN [j \in 1..MaxProjectId |->
          IF j \in created
          THEN [cpu_used |-> txn[s].loc.quota.cpu_used,
                ram_gb_used |-> txn[s].loc.quota.ram_gb_used,
                intact |-> TRUE, rollbacks |-> 0]
          ELSE IF txn[s].op \in RollbackOps /\ txn[s].args.project_id = j
          THEN [hist[j] EXCEPT !.rollbacks = IF @ < 2 THEN @ + 1 ELSE @]
          ELSE IF \E r \in projects, q \in teamq :
                    /\ r.id = j /\ q.id \in written
                    /\ q.team_id = r.team_id /\ q.site = r.site
          THEN [hist[j] EXCEPT !.intact = FALSE]
          ELSE hist[j]]

\* -------------------------------------------------------- allocation tree

\* AllocationRepository.get_servers_for_field: the servers joined to the
\* allocations of the field, as rows (id, cpu, ram_gb).
get_servers_for_field(field_id) ==
    {[id |-> r.server_id, cpu |-> ServerCpu[r.server_id], ram_gb |-> ServerRam[r.server_id]] :
        r \in {a \in allocs : a.field_id = field_id}}

\* AllocationRepository.get_dept_quotas_for_field
get_dept_quotas_for_field(field_id) == {q \in deptq : q.field_id = field_id}

\* AllocationRepository.get_team_quotas_for_dept
get_team_quotas_for_dept(dept_id) == {q \in teamq : q.department_id = dept_id}

\* schemas.TeamQuotaNode of a team quota row
TeamQuotaNode(tq) ==
    [team_id |-> tq.team_id, site |-> tq.site,
     cpu_limit |-> tq.cpu_limit, ram_gb_limit |-> tq.ram_gb_limit,
     cpu_used |-> tq.cpu_used, ram_gb_used |-> tq.ram_gb_used]

\* A department quota node with the nodes of all team quotas of the department.
DeptQuotaNode_all_teams(claims, dq) ==
    [dept_id |-> dq.department_id, site |-> dq.site,
     cpu_limit |-> dq.cpu_limit, ram_gb_limit |-> dq.ram_gb_limit,
     cpu_used |-> dq.cpu_used, ram_gb_used |-> dq.ram_gb_used,
     teams |-> {TeamQuotaNode(tq) : tq \in get_team_quotas_for_dept(dq.department_id)}]

\* schemas.DeptQuotaNode of a department quota row: the loop over the team
\* quotas of the department, which skips those a team_lead is not scoped to.
DeptQuotaNode(claims, dq) ==
    [dept_id |-> dq.department_id, site |-> dq.site,
     cpu_limit |-> dq.cpu_limit, ram_gb_limit |-> dq.ram_gb_limit,
     cpu_used |-> dq.cpu_used, ram_gb_used |-> dq.ram_gb_used,
     teams |-> {TeamQuotaNode(tq) :
                    tq \in {q \in get_team_quotas_for_dept(dq.department_id) :
                                ~ (claims.role = "team_lead" /\ claims.scope_id # q.team_id)}}]

\* schemas.FieldNode of a field: the capacity of its servers and the loop over
\* its department quotas, which skips those a dept_admin is not scoped to.
FieldNode(claims, field_id) ==
    LET servers == get_servers_for_field(field_id)
    IN [field_id |-> field_id, site |-> FieldSite[field_id],
        total_cpu |-> SumOf(servers, "cpu"), total_ram_gb |-> SumOf(servers, "ram_gb"),
        departments |-> {DeptQuotaNode(claims, dq) :
                            dq \in {q \in get_dept_quotas_for_field(field_id) :
                                        ~ (claims.role = "dept_admin"
                                           /\ claims.scope_id # q.department_id)}}]

\* The loop over the fields of a center without the skip for a field_admin.
field_nodes_unfiltered(claims, center_id) ==
    {FieldNode(claims, f) : f \in {x \in org.fields : FieldCenter[x] = center_id}}

\* The field nodes of a center: the loop over its fields, which skips those a
\* field_admin is not scoped to.
field_nodes(claims, center_id) ==
    {FieldNode(claims, f) :
        f \in {x \in org.fields : /\ FieldCenter[x] = center_id
                                  /\ ~ (claims.role = "field_admin" /\ claims.scope_id # x)}}

\* The centers of the AllocationTreeResponse (lists as sets: no order is
\* promised).
AllocationTree(claims) ==
    {[center_id |-> c, fields |-> field_nodes(claims, c)] :
        c \in {x \in org.centers : field_nodes(claims, x) # {} \/ claims.role = "center_admin"}}

\* AllocationService.get_allocation_tree: a read of the committed tables.
get_allocation_tree(s, claims) ==
    /\ txn[s].pc = "idle"
    /\ Admit
    /\ txn' = [txn EXCEPT ![s] = [Idle EXCEPT !.op = "get_allocation_tree",
                                              !.claims = claims, !.pc = "done",
                                              !.loc = [centers |-> AllocationTree(claims)],
                                              !.result = "ok"]]
    /\ UNCHANGED <<naming, org, hist, allocs, deptq, teamq, projects, tasks, backend>>

\* ------------------------------------------------------------ org deletes

\* AllocationRepository.center_has_fields, field_has_departments,
\* department_has_teams, team_has_projects: the node has a child row.
center_has_fields(center_id) == \E f \in org.fields : FieldCenter[f] = center_id

field_has_departments(field_id) == \E d \in org.departments : DeptField[d] = field_id

department_has_teams(dept_id) == \E tm \in org.teams : TeamDept[tm] = dept_id

team_has_projects(team_id) == \E p \in projects : p.team_id = team_id

\* The node-has-children predicate of the four delete operations.
has_children(kind, id) ==
    IF kind = "centers" THEN center_has_fields(id)
    ELSE IF kind = "fields" THEN field_has_departments(id)
    ELSE IF kind = "departments" THEN department_has_teams(id)
    ELSE team_has_projects(id)

\* The ForeignKey(..., ondelete="RESTRICT") columns: a committed row refers to
\* the node.
Referenced(kind, id) ==
    IF kind = "centers" THEN \E f \in org.fields : FieldCenter[f] = id
    ELSE IF kind = "fields"
    THEN \/ \E d \in org.departments : DeptField[d] = id
         \/ \E r \in allocs : r.field_id = id
         \/ \E q \in deptq : q.field_id = id
    ELSE IF kind = "departments"
    THEN \/ \E tm \in org.teams : TeamDept[tm] = id
         \/ \E q \in deptq : q.department_id = id
         \/ \E q \in teamq : q.department_id = id
    ELSE \/ \E q \in teamq : q.team_id = id
         \/ \E p \in projects : p.team_id = id

\* An uncommitted INSERT of another session refers to the node: the DELETE of
\* the node waits for its transaction to end.
ReferencePending(s, kind, id) ==
    \E o \in Others(s) :
        \/ kind = "fields" /\ \E r \in txn[o].w.insAlloc : r.field_id = id
        \/ kind = "fields" /\ \E q \in txn[o].w.insDq : q.field_id = id
        \/ kind = "departments" /\ \E q \in txn[o].w.insDq : q.department_id = id
        \/ kind = "departments" /\ \E q \in txn[o].w.insTq : q.department_id = id
        \/ kind = "teams" /\ \E q \in txn[o].w.insTq : q.team_id = id
        \/ kind = "teams" /\ \E p \in txn[o].w.insProj : p.team_id = id

\* AdminService.delete_center, delete_field, delete_department, delete_team up
\* to the node-has-children guard.
structural_delete(s, claims, op, kind, id) ==
    /\ Admit
    /\ LET call == [Idle EXCEPT !.op = op, !.claims = claims,
                                !.args = [kind |-> kind, id |-> id]]
       IN IF ~ is_super_admin(claims)
          THEN txn' = [txn EXCEPT ![s] = [call EXCEPT !.pc = "done", !.result = "Forbidden"]]
          ELSE IF id \notin org[kind]
          THEN txn' = [txn EXCEPT ![s] = [call EXCEPT !.pc = "done", !.result = "NotFound"]]
          ELSE IF has_children(kind, id)
          THEN txn' = [txn EXCEPT ![s] = [call EXCEPT !.pc = "done", !.result = "Conflict"]]
          ELSE txn' = [txn EXCEPT ![s] = [call EXCEPT !.pc = "delete_org"]]
    /\ UNCHANGED <<naming, org, hist, allocs, deptq, teamq, projects, tasks, backend>>

delete_center(s, claims, center_id) ==
    /\ txn[s].pc = "idle"
    /\ structural_delete(s, claims, "delete_center", "centers", center_id)

delete_field(s, claims, field_id) ==
    /\ txn[s].pc = "idle"
    /\ structural_delete(s, claims, "delete_field", "fields", field_id)

delete_department(s, claims, dept_id) ==
    /\ txn[s].pc = "idle"
    /\ structural_delete(s, claims, "delete_department", "departments", dept_id)

delete_team(s, claims, team_id) ==
    /\ txn[s].pc = "idle"
    /\ structural_delete(s, claims, "delete_team", "teams", team_id)

\* AllocationRepository.delete_center, delete_field, delete_department,
\* delete_team: the DELETE of the row.  It waits for a transaction that has
\* deleted the row or inserted a reference to it; a row that is gone by then
\* matches nothing; a row referred to through a RESTRICT foreign key raises
\* IntegrityError.
delete_org_row(s) ==
    /\ txn[s].pc = "delete_org"
    /\ LET kind == txn[s].args.kind
           id == txn[s].args.id
       IN /\ \A o \in Others(s) : <<kind, id>> \notin txn[o].w.delOrg
          /\ ~ ReferencePending(s, kind, id)
          /\ IF id \notin org[kind]
             THEN txn' = [txn EXCEPT ![s].pc = "commit"]
             ELSE IF Referenced(kind, id)
             THEN Raise(s, "IntegrityError")
             ELSE txn' = [txn EXCEPT ![s].pc = "commit",
                                     ![s].w.delOrg = @ \cup {<<kind, id>>}]
    /\ UNCHANGED <<naming, org, hist, allocs, deptq, teamq, projects, budget, tasks, backend>>

\* ---------------------------------------------------------- transactions

\* The end of `async with session.begin()`: the writes become visible to the
\* other sessions at once and the row locks are released.
commit(s) ==
    /\ txn[s].pc = "commit"
    /\ allocs' = {r \in allocs : r.id \notin txn[s].w.delAlloc} \cup txn[s].w.insAlloc
    /\ txn' = [txn EXCEPT ![s].pc = "done", ![s].loc = <<>>, ![s].w = NoWrites,
                          ![s].locks = {}, ![s].result = "ok"]
    /\ deptq' = Written(deptq, txn[s].w.updDq, txn[s].w.insDq)
    /\ teamq' = Written(teamq, txn[s].w.updTq, txn[s].w.insTq)
    /\ projects' = Written(projects, txn[s].w.updProj, txn[s].w.insProj)
    /\ tasks' = IF txn[s].op = "create_project"
                THEN Append(tasks, [kind |-> "_provision_and_poll",
                                    project_id |->
                                        (CHOOSE r \in txn[s].w.insProj : TRUE).id])
                ELSE IF txn[s].op = "delete_project"
                THEN Append(tasks, [kind |-> "_deprovision",
                                    project_id |-> txn[s].args.project_id])
                ELSE tasks
    /\ hist' = Recorded(s)
    /\ org' = [k \in DOMAIN org |-> org[k] \ {d[2] : d \in {x \in txn[s].w.delOrg : x[1] = k}}]
    /\ UNCHANGED <<naming, budget, backend>>

\* The response is sent; the session is closed and free for the next request.
respond(s) ==
    /\ txn[s].pc = "done"
    /\ txn' = [txn EXCEPT ![s] = Idle]
    /\ UNCHANGED <<naming, org, hist, allocs, deptq, teamq, projects, budget, tasks, backend>>

\* ------------------------------------------------------- specifications

\* The database after the migrations: no allocation, no quota, no project.
Init ==
    /\ allocs = {}
    /\ deptq = {}
    /\ teamq = {}
    /\ projects = {}
    /\ txn = [p \in Procs |-> Idle]
    /\ tasks = <<>>
    /\ backend = NoNamespaces
    /\ hist = NoHistory
    /\ org = FullOrg
    /\ naming = NoNaming
    /\ budget = 0 - 1

ServerCalls(s) ==
    \/ \E c \in ServerActors, sv \in Servers, f \in Fields :
            assign_server_to_field(s, c, sv, f)
    \/ \E c \in ServerActors, id \in 1..MaxAllocId : remove_server_from_field(s, c, id)
    \/ \E c \in ServerActors, sv \in Servers, f \in Fields, g \in Fields :
            swap_server_between_fields(s, c, sv, f, g)

ServerSteps(s) ==
    \/ create_server_allocation_flush(s)
    \/ remove_check(s)
    \/ delete_server_allocation(s)
    \/ create_server_allocation_select(s)

NextServers ==
    \E s \in Sessions : ServerCalls(s) \/ ServerSteps(s) \/ commit(s) \/ respond(s)

\* The server to field assignment alone, on an empty database.
SpecServers == Init /\ [][NextServers]_vars

DeptCalls(s) ==
    \/ \E c \in Actors, f \in Fields, d \in Departments, site \in Sites,
          cpu \in CpuInputs, ram \in RamInputs :
            create_dept_quota(s, c, f, d, site, cpu, ram)
    \/ \E c \in Actors, id \in 1..MaxQuotaId, cpu \in CpuInputs, ram \in RamInputs :
            update_dept_quota(s, c, id, cpu, ram)

DeptSteps(s) ==
    \/ dept_quota_read_capacity(s)
    \/ dept_quota_check_headroom(s)
    \/ create_dept_quota_flush(s)

\* A run of at most MaxRequests requests on an empty database.
InitBounded ==
    /\ allocs = {}
    /\ deptq = {}
    /\ teamq = {}
    /\ projects = {}
    /\ txn = [p \in Procs |-> Idle]
    /\ tasks = <<>>
    /\ backend = NoNamespaces
    /\ hist = NoHistory
    /\ org = FullOrg
    /\ naming = NoNaming
    /\ budget = MaxRequests

\* The callers that pass the role check of the server operations.
CenterAdmins == {c \in Actors : c.role = "center_admin"}

NextDept ==
    \E s \in Sessions :
        \/ \E c \in CenterAdmins, sv \in Servers, f \in Fields :
                assign_server_to_field(s, c, sv, f)
        \/ \E c \in CenterAdmins, id \in 1..MaxAllocId : remove_server_from_field(s, c, id)
        \/ \E c \in CenterAdmins, sv \in Servers, f \in Fields, g \in Fields :
                swap_server_between_fields(s, c, sv, f, g)
        \/ ServerSteps(s)
        \/ DeptCalls(s)
        \/ DeptSteps(s)
        \/ commit(s)
        \/ respond(s)

\* Server assignment and department quotas, MaxRequests requests from an
\* empty database.
SpecDept == InitBounded /\ [][NextDept]_vars

\* The team quota operations compare claims.role with "dept_admin" alone: the
\* department admins and one caller of another role.
TeamActors ==
    {c \in Actors : c.role = "dept_admin" \/ (c.role = "team_lead" /\ c.scope_id = "t1")}

TeamCalls(s) ==
    \/ \E c \in TeamActors, d \in Departments, tm \in Teams, site \in Sites,
          cpu \in CpuInputs, ram \in RamInputs :
            create_team_quota(s, c, d, tm, site, cpu, ram)
    \/ \E c \in TeamActors, id \in 1..MaxQuotaId, cpu \in CpuInputs, ram \in RamInputs :
            update_team_quota(s, c, id, cpu, ram)

TeamSteps(s) ==
    \/ team_quota_lock_dept(s)
    \/ team_quota_check_headroom(s)
    \/ create_team_quota_flush(s)

\* The state after assign_server_to_field(s1, f1) and
\* create_dept_quota(f1, d1, a) with the whole of the field's capacity.
InitDeptQuota ==
    /\ allocs = {[id |-> 1, server_id |-> "s1", field_id |-> "f1"]}
    /\ deptq = {[id |-> 1, field_id |-> "f1", department_id |-> "d1", site |-> "a",
                 cpu_limit |-> ServerCpu["s1"], ram_gb_limit |-> ServerRam["s1"],
                 cpu_used |-> 0, ram_gb_used |-> 0]}
    /\ teamq = {}
    /\ projects = {}
    /\ txn = [p \in Procs |-> Idle]
    /\ tasks = <<>>
    /\ backend = NoNamespaces
    /\ hist = NoHistory
    /\ org = FullOrg
    /\ naming = NoNaming
    /\ budget = MaxRequests

FieldAdmins == {c \in Actors : c.role = "field_admin"}

NextTeam ==
    \E s \in Sessions :
        \/ TeamCalls(s)
        \/ TeamSteps(s)
        \/ \E c \in FieldAdmins, id \in 1..MaxQuotaId, cpu \in CpuInputs, ram \in RamInputs :
                update_dept_quota(s, c, id, cpu, ram)
        \/ dept_quota_read_capacity(s)
        \/ dept_quota_check_headroom(s)
        \/ commit(s)
        \/ respond(s)

\* Team quotas under one department quota, MaxRequests requests.
SpecTeam == InitDeptQuota /\ [][NextTeam]_vars

\* create_project reads claims.role and claims.scope_id: the team leads and
\* one caller of another role.
ProjectActors ==
    {c \in Actors : c.role = "team_lead" \/ (c.role = "dept_admin" /\ c.scope_id = "d1")}

ProjectCalls(s) ==
    \/ \E c \in ProjectActors, n \in ProjectNames, site \in Sites, sla \in SlaInputs :
            create_project(s, c, n, site, sla[1], sla[2])
    \/ \E c \in ProjectActors, id \in 1..MaxProjectId : delete_project(s, c, id)

ProjectSteps(s) ==
    \/ create_project_flush(s)
    \/ delete_project_credit(s)

TaskSteps(w) ==
    \/ start_task(w)
    \/ task_get_by_id(w)
    \/ provision(w)
    \/ rollback_lock_project(w)
    \/ rollback_credit(w)
    \/ poll_argocd_until_synced(w)
    \/ update_status(w)
    \/ deprovision(w)

\* The state after InitDeptQuota and create_team_quota(d1, t1, a) with the
\* whole of the department quota.
InitTeamQuota ==
    /\ allocs = {[id |-> 1, server_id |-> "s1", field_id |-> "f1"]}
    /\ deptq = {[id |-> 1, field_id |-> "f1", department_id |-> "d1", site |-> "a",
                 cpu_limit |-> ServerCpu["s1"], ram_gb_limit |-> ServerRam["s1"],
                 cpu_used |-> 0, ram_gb_used |-> 0]}
    /\ teamq = {[id |-> 1, department_id |-> "d1", team_id |-> "t1", site |-> "a",
                 cpu_limit |-> ServerCpu["s1"], ram_gb_limit |-> ServerRam["s1"],
                 cpu_used |-> 0, ram_gb_used |-> 0]}
    /\ projects = {}
    /\ txn = [p \in Procs |-> Idle]
    /\ tasks = <<>>
    /\ backend = NoNamespaces
    /\ hist = NoHistory
    /\ org = FullOrg
    /\ naming = NoNaming
    /\ budget = MaxRequests

NextProj ==
    \/ \E s \in Sessions : ProjectCalls(s) \/ ProjectSteps(s)
    \/ \E w \in Workers : TaskSteps(w)
    \/ \E p \in Procs : commit(p) \/ respond(p)

\* Projects under one team quota, MaxRequests requests and their tasks.
SpecProj == InitTeamQuota /\ [][NextProj]_vars

\* The (cpu_limit, ram_gb_limit) the update requests ask for: one dimension
\* below the amount in use, the limits as they are, one or both raised within
\* the parent's capacity, one dimension above the parent's capacity.
LimitInputs ==
    {<<u[1] * CpuUnit, u[2] * RamUnit>> :
        u \in {<<0, 1>>, <<1, 0>>, <<1, 1>>, <<2, 1>>, <<2, 2>>,
               <<MaxUnits + 1, 1>>, <<2, MaxUnits + 1>>}}

\* The admins of the field and of the department of the quotas, and a caller
\* of another role.
LimitActors ==
    {c \in Actors : c.scope_id \in {"f1", "d1", "t1"}}

\* The state after InitDeptQuota, create_team_quota for t1 and for t2 with
\* half of the department quota each, and a create_project(bronze, regular)
\* of t1 that was provisioned and became active.
InitTeamQuotaInUse ==
    /\ allocs = {[id |-> 1, server_id |-> "s1", field_id |-> "f1"]}
    /\ deptq = {[id |-> 1, field_id |-> "f1", department_id |-> "d1", site |-> "a",
                 cpu_limit |-> ServerCpu["s1"], ram_gb_limit |-> ServerRam["s1"],
                 cpu_used |-> 0, ram_gb_used |-> 0]}
    /\ teamq = {[id |-> 1, department_id |-> "d1", team_id |-> "t1", site |-> "a",
                 cpu_limit |-> CpuUnit, ram_gb_limit |-> RamUnit,
                 cpu_used |-> CpuUnit, ram_gb_used |-> RamUnit],
                [id |-> 2, department_id |-> "d1", team_id |-> "t2", site |-> "a",
                 cpu_limit |-> CpuUnit, ram_gb_limit |-> RamUnit,
                 cpu_used |-> 0, ram_gb_used |-> 0]}
    /\ projects = {[id |-> 1, name |-> <<"p">>, team_id |-> "t1", site |-> "a",
                    namespace_name |-> make_namespace_name(TeamIdText["t1"], <<"p">>),
                    status |-> "active",
                    quota_cpu |-> CpuUnit, quota_ram_gb |-> RamUnit,
                    deleted_at |-> "NULL"]}
    /\ txn = [p \in Procs |-> Idle]
    /\ tasks = <<>>
    /\ backend = [NoNamespaces EXCEPT ![make_namespace_name(TeamIdText["t1"], <<"p">>)] = 1]
    /\ hist = [NoHistory EXCEPT ![1] = [cpu_used |-> 0, ram_gb_used |-> 0,
                                        intact |-> TRUE, rollbacks |-> 0]]
    /\ org = FullOrg
    /\ naming = NoNaming
    /\ budget = MaxRequests

NextLimits ==
    \E s \in Sessions :
        \/ \E c \in LimitActors, id \in 1..MaxQuotaId, l \in LimitInputs :
                update_team_quota(s, c, id, l[1], l[2])
        \/ \E c \in LimitActors, id \in 1..MaxQuotaId, l \in LimitInputs :
                update_dept_quota(s, c, id, l[1], l[2])
        \/ team_quota_lock_dept(s)
        \/ team_quota_check_headroom(s)
        \/ dept_quota_read_capacity(s)
        \/ dept_quota_check_headroom(s)
        \/ commit(s)
        \/ respond(s)

\* The limit updates of a department quota and of its team quotas, one of
\* them in use, MaxRequests requests.
SpecLimits == InitTeamQuotaInUse /\ [][NextLimits]_vars

\* The state after assign_server_to_field(s1, f1): no quota yet.
InitServerBound ==
    /\ allocs = {[id |-> 1, server_id |-> "s1", field_id |-> "f1"]}
    /\ deptq = {}
    /\ teamq = {}
    /\ projects = {}
    /\ txn = [p \in Procs |-> Idle]
    /\ tasks = <<>>
    /\ backend = NoNamespaces
    /\ hist = NoHistory
    /\ org = FullOrg
    /\ naming = NoNaming
    /\ budget = MaxRequests

\* The admins that pass the role checks of the create operations, and the
\* admin of another field.
QuotaAdmins ==
    {c \in Actors : c.role = "field_admin" \/ (c.role = "dept_admin" /\ c.scope_id = "d1")}

NextQuotas ==
    \E s \in Sessions :
        \/ \E c \in QuotaAdmins, f \in Fields, d \in Departments, site \in Sites,
              cpu \in CpuInputs, ram \in RamInputs :
                create_dept_quota(s, c, f, d, site, cpu, ram)
        \/ \E c \in QuotaAdmins, d \in Departments, tm \in Teams, site \in Sites,
              cpu \in CpuInputs, ram \in RamInputs :
                create_team_quota(s, c, d, tm, site, cpu, ram)
        \/ DeptSteps(s)
        \/ TeamSteps(s)
        \/ commit(s)
        \/ respond(s)

\* The creation of department and team quotas on a field with one server,
\* MaxRequests requests.
SpecQuotas == InitServerBound /\ [][NextQuotas]_vars

NextRollback ==
    \/ NextProj
    \/ \E w \in Workers, id \in 1..MaxProjectId : rollback_quota_and_fail(w, id)

\* SpecProj with _rollback_quota_and_fail also invoked on its own, any number
\* of times for a project.
SpecRollback == InitTeamQuota /\ [][NextRollback]_vars

Next == NextServers

Spec == Init /\ [][Next]_vars

\* ------------------------------------------------------------ properties

BindingsOf(rows, server_id) == {r \in rows : r.server_id = server_id}

\* Session s ends a request of kind op in this step.
Finishes(s, op) ==
    /\ txn[s].pc # "done"
    /\ txn'[s].pc = "done"
    /\ txn'[s].op = op

\* C7: in every reachable state each server has at most one
\* field_server_allocations row.
C7_OneBindingPerServer ==
    \A sv \in Servers : Cardinality(BindingsOf(allocs, sv)) <= 1

\* C7 witness: two requests raced for one server; one row is committed and
\* the other request was stopped by the unique index.
C7_Witness ==
    \E s \in Sessions :
        /\ txn[s].pc = "done"
        /\ txn[s].result = "IntegrityError"
        /\ Cardinality(BindingsOf(allocs, txn[s].args.server_id)) = 1

\* C8 (as claimed): every assign_server_to_field call of a center_admin ends
\* with an allocation or with ConflictError, never with another error.
C8_AssignEndsOkOrConflict ==
    \A s \in Sessions :
        (/\ txn[s].pc = "done"
         /\ txn[s].op = "assign_server_to_field"
         /\ txn[s].claims.role = "center_admin")
        => txn[s].result \in {"ok", "Conflict"}

\* C9 (as claimed): a swap that commits leaves the server bound to to_field_id
\* and to no row of from_field_id; a swap that fails changes no binding.
C9_SwapAllOrNothing_Claimed ==
    [][\A s \in Sessions :
        Finishes(s, "swap_server_between_fields") =>
            IF txn'[s].result = "ok"
            THEN LET now == BindingsOf(allocs', txn'[s].args.server_id)
                 IN /\ \E r \in now : r.field_id = txn'[s].args.to_field_id
                    /\ \A r \in now : r.field_id # txn'[s].args.from_field_id
            ELSE allocs' = allocs]_vars

\* C9 (amended): a swap that commits leaves exactly one binding of the server,
\* to to_field_id, and the binding it read is gone (so no binding to
\* from_field_id remains unless from_field_id = to_field_id); a swap that
\* fails changes no binding.
C9_SwapAllOrNothing ==
    [][\A s \in Sessions :
        Finishes(s, "swap_server_between_fields") =>
            IF txn'[s].result = "ok"
            THEN LET now == BindingsOf(allocs', txn'[s].args.server_id)
                 IN /\ Cardinality(now) = 1
                    /\ \A r \in now : r.field_id = txn'[s].args.to_field_id
                    /\ \A r \in now : r.id # txn[s].loc.existing
            ELSE allocs' = allocs]_vars

\* C9 witness: a swap between two different fields has committed while the
\* other session's swap of the same server failed.
C9_Witness ==
    \E s \in Sessions, o \in Sessions :
        /\ s # o
        /\ txn[s].pc = "done" /\ txn[s].op = "swap_server_between_fields"
        /\ txn[s].result = "ok"
        /\ txn[s].args.from_field_id # txn[s].args.to_field_id
        /\ txn[o].pc = "done" /\ txn[o].op = "swap_server_between_fields"
        /\ txn[o].result = "Conflict"
        /\ txn[o].args.server_id = txn[s].args.server_id
        /\ txn[o].args.from_field_id = txn[s].args.from_field_id

\* C10 (as claimed): a swap by a center_admin whose server is, when the swap
\* ends, unbound or bound to another field than from_field_id ends with
\* ConflictError and changes no binding.
C10_SwapConflictOnMismatch ==
    [][\A s \in Sessions :
        (/\ Finishes(s, "swap_server_between_fields")
         /\ txn'[s].claims.role = "center_admin"
         /\ \A r \in BindingsOf(allocs, txn'[s].args.server_id) :
                r.field_id # txn'[s].args.from_field_id)
        => (txn'[s].result = "Conflict" /\ allocs' = allocs)]_vars

DeptOps == {"create_dept_quota", "update_dept_quota"}

\* C3 (as claimed): for every field and site the department quota limits sum
\* to no more than the cpu and ram_gb of the servers bound to the field.
C3_DeptLimitsWithinFieldCapacity ==
    \A f \in Fields, site \in Sites :
        /\ get_dept_quota_sum_for_field_site(f, site)[1] <= get_field_total_cpu_ram(f, site)[1]
        /\ get_dept_quota_sum_for_field_site(f, site)[2] <= get_field_total_cpu_ram(f, site)[2]

\* C5 (as claimed): a department quota request that commits while the field's
\* capacity is still the one it read leaves the limits of the field's
\* department quotas within that capacity, whatever other department quota
\* requests ran beside it.
C5_DeptRequestsSerialize ==
    [][\A s \in Sessions :
        (/\ txn[s].pc = "commit"
         /\ txn[s].op \in DeptOps
         /\ txn'[s].pc = "done"
         /\ get_field_total_cpu_ram(DeptRequestField(s), DeptRequestSite(s))
                = <<txn[s].loc.field_cpu, txn[s].loc.field_ram>>)
        => LET f == DeptRequestField(s)
               site == DeptRequestSite(s)
               sum == <<SumOf({q \in deptq' : q.field_id = f /\ q.site = site}, "cpu_limit"),
                        SumOf({q \in deptq' : q.field_id = f /\ q.site = site},
                              "ram_gb_limit")>>
           IN sum[1] <= txn[s].loc.field_cpu /\ sum[2] <= txn[s].loc.field_ram]_vars

TeamOps == {"create_team_quota", "update_team_quota"}

\* Session s runs a team quota request that has locked its department quota.
HoldsDeptLock(s) ==
    txn[s].op \in TeamOps /\ txn[s].pc \in {"tq_sum", "tq_flush", "commit"}

\* C2 (as claimed): for every department quota row the limits of the team
\* quotas of its department and site sum to no more than its own limits.
C2_TeamLimitsWithinDeptLimit ==
    \A q \in deptq :
        /\ get_team_quota_sum_for_dept_site(q.department_id, q.site)[1] <= q.cpu_limit
        /\ get_team_quota_sum_for_dept_site(q.department_id, q.site)[2] <= q.ram_gb_limit

\* C6: team quota requests under one department quota serialize on its row
\* lock: no two of them are past get_dept_quota_for_update at once, and each
\* one that commits leaves the limits of the department's team quotas within
\* the department quota's limits, so that of two requests whose combined
\* limits exceed the headroom the later one is refused.
C6_TeamRequestsSerialize ==
    [][\A s \in Sessions :
        /\ \A o \in Sessions \ {s} :
            ~ (/\ HoldsDeptLock(s) /\ HoldsDeptLock(o)
               /\ txn[s].loc.dept_quota.id = txn[o].loc.dept_quota.id)
        /\ (HoldsDeptLock(s) /\ txn[s].pc = "commit" /\ txn'[s].pc = "done")
            => LET d == TeamRequestDept(s)
                   site == TeamRequestSite(s)
                   rows == {q \in teamq' : q.department_id = d /\ q.site = site}
               IN \A q \in deptq' :
                    (q.department_id = d /\ q.site = site)
                    => /\ SumOf(rows, "cpu_limit") <= q.cpu_limit
                       /\ SumOf(rows, "ram_gb_limit") <= q.ram_gb_limit]_vars

\* C6 witness: two create_team_quota requests for different teams of one
\* department are in flight, each within the department quota's limits alone
\* and together beyond them; one has committed and the other, which passed
\* the lock after it, was refused with QuotaExceeded.
C6_Witness ==
    \E s \in Sessions, o \in Sessions, q \in deptq :
        /\ s # o
        /\ txn[s].op = "create_team_quota" /\ txn[s].pc = "done" /\ txn[s].result = "ok"
        /\ txn[o].op = "create_team_quota" /\ txn[o].pc = "done"
        /\ txn[o].result = "QuotaExceeded"
        /\ txn[s].args.dept_id = q.department_id /\ txn[o].args.dept_id = q.department_id
        /\ txn[s].args.site = q.site /\ txn[o].args.site = q.site
        /\ txn[s].args.team_id # txn[o].args.team_id
        /\ txn[s].args.cpu_limit > 0 /\ txn[o].args.cpu_limit > 0
        /\ txn[o].args.cpu_limit <= q.cpu_limit
        /\ txn[o].args.ram_gb_limit <= q.ram_gb_limit
        /\ \/ txn[s].args.cpu_limit + txn[o].args.cpu_limit > q.cpu_limit
           \/ txn[s].args.ram_gb_limit + txn[o].args.ram_gb_limit > q.ram_gb_limit
        /\ \E r \in teamq : r.team_id = txn[s].args.team_id /\ r.site = q.site
        /\ ~ \E r \in teamq : r.team_id = txn[o].args.team_id /\ r.site = q.site

\* The team quota row with the given id.
TeamQuotaRow(rows, id) == CHOOSE q \in rows : q.id = id

\* C1 (as claimed): every department and team quota row has
\* cpu_used <= cpu_limit and ram_gb_used <= ram_gb_limit.
C1_UsedWithinLimit ==
    \A q \in deptq \cup teamq :
        q.cpu_used <= q.cpu_limit /\ q.ram_gb_used <= q.ram_gb_limit

\* C4: create_project requests against one team quota row serialize on its
\* lock: a create that commits raises the row's committed cpu_used and
\* ram_gb_used by exactly its own reservation (no debit is lost, whatever ran
\* beside it) and leaves them within the limits; a create that fails leaves
\* every team quota row as it was.
C4_CreateProjectSerializes ==
    [][\A s \in Sessions :
        (txn[s].op = "create_project" /\ Finishes(s, "create_project"))
        => IF txn'[s].result = "ok"
           THEN LET id == txn[s].loc.quota.id
                    required == get_quota(txn[s].args.sla_type,
                                          txn[s].args.performance_tier)
                    before == TeamQuotaRow(teamq, id)
                    after == TeamQuotaRow(teamq', id)
                IN /\ after.cpu_used = before.cpu_used + required[1]
                   /\ after.ram_gb_used = before.ram_gb_used + required[2]
                   /\ after.cpu_used <= after.cpu_limit
                   /\ after.ram_gb_used <= after.ram_gb_limit
           ELSE teamq' = teamq]_vars

\* C4 witness: two create_project requests of one team have finished, one
\* committed and debited, the other refused with QuotaExceeded although its
\* reservation alone fits the limits.
C4_Witness ==
    \E s \in Sessions, o \in Sessions, q \in teamq :
        /\ s # o
        /\ txn[s].op = "create_project" /\ txn[s].pc = "done" /\ txn[s].result = "ok"
        /\ txn[o].op = "create_project" /\ txn[o].pc = "done"
        /\ txn[o].result = "QuotaExceeded"
        /\ txn[s].claims = txn[o].claims
        /\ q.team_id = txn[s].claims.scope_id
        /\ q.cpu_used = get_quota(txn[s].args.sla_type, txn[s].args.performance_tier)[1]
        /\ get_quota(txn[o].args.sla_type, txn[o].args.performance_tier)[1] <= q.cpu_limit
        /\ get_quota(txn[o].args.sla_type, txn[o].args.performance_tier)[2]
                <= q.ram_gb_limit
        /\ \A r \in projects : r.status = "provisioning"

\* The committed row of project id.
ProjectRow(rows, id) == CHOOSE r \in rows : r.id = id

\* The team quota rows a project reserves from.
QuotaRowsOf(rows, project) ==
    {q \in rows : q.team_id = project.team_id /\ q.site = project.site}

\* Session w commits the compensating transaction of _rollback_quota_and_fail.
RollbackCommits(w) ==
    /\ txn[w].op \in RollbackOps
    /\ txn[w].pc = "commit"
    /\ txn'[w].pc = "done"

\* C11: when create_project has debited the team quota, provision fails and no
\* other operation changed that team quota row in between, the compensating
\* transaction leaves the project 'failed' and the row's cpu_used and
\* ram_gb_used at the values they had before that create_project.
C11_RollbackRestoresUsed ==
    [][\A w \in Procs :
        LET id == txn[w].args.project_id
        IN (RollbackCommits(w) /\ hist[id].intact /\ hist[id].rollbacks = 0)
           => /\ \E r \in projects' : r.id = id /\ r.status = "failed"
              /\ \A q \in QuotaRowsOf(teamq', ProjectRow(projects', id)) :
                    /\ q.cpu_used = hist[id].cpu_used
                    /\ q.ram_gb_used = hist[id].ram_gb_used]_vars

\* A project that reserved from a team quota already in use was rolled back
\* and the row is back at the amounts used before.
C11_Witness ==
    \E r \in projects :
        /\ r.status = "failed"
        /\ hist[r.id].intact /\ hist[r.id].rollbacks = 1
        /\ hist[r.id].cpu_used > 0
        /\ \E q \in QuotaRowsOf(teamq, r) :
              q.cpu_used = hist[r.id].cpu_used /\ q.ram_gb_used = hist[r.id].ram_gb_used

\* C12: _rollback_quota_and_fail is idempotent: a rollback of a project that
\* was rolled back before leaves cpu_used and ram_gb_used of every team quota
\* row as they are, also when other projects still hold reservations.
C12_RollbackIdempotent ==
    [][\A w \in Procs :
        (RollbackCommits(w) /\ hist[txn[w].args.project_id].rollbacks >= 1)
        => teamq' = teamq]_vars

\* C13: a create_project of a team_lead succeeds exactly when the team quota
\* row of (scope_id, site) exists and has room for the SLA amounts in both
\* dimensions; it then adds one 'provisioning' project row of that team with
\* that reservation and raises used by it; otherwise it raises
\* QuotaExceededError, adds no project row and leaves used as it is.
C13_CreateProjectContract ==
    [][\A s \in Sessions :
        (Finishes(s, "create_project") /\ txn'[s].claims.role = "team_lead")
        => LET a == txn'[s].args
               team_id == txn'[s].claims.scope_id
               required == get_quota(a.sla_type, a.performance_tier)
               rows == project_get_team_quota_for_update(team_id, a.site)
               fits == \E q \in rows : /\ q.cpu_used + required[1] <= q.cpu_limit
                                       /\ q.ram_gb_used + required[2] <= q.ram_gb_limit
           IN IF fits
              THEN /\ txn'[s].result = "ok"
                   /\ \E r \in projects' \ projects :
                        /\ projects' = projects \cup {r}
                        /\ r.status = "provisioning" /\ r.team_id = team_id
                        /\ r.quota_cpu = required[1] /\ r.quota_ram_gb = required[2]
                   /\ \A q \in rows : \E n \in teamq' :
                        /\ n.id = q.id
                        /\ n.cpu_used = q.cpu_used + required[1]
                        /\ n.ram_gb_used = q.ram_gb_used + required[2]
              ELSE /\ txn'[s].result = "QuotaExceeded"
                   /\ projects' = projects
                   /\ teamq' = teamq]_vars

\* The status changes the lifecycle of a project allows.
StatusEdges ==
    {<<"provisioning", "active">>, <<"provisioning", "failed">>,
     <<"provisioning", "deleting">>, <<"active", "deleting">>}

\* C14: the status of a project only changes along provisioning -> active,
\* provisioning -> failed, provisioning -> deleting and active -> deleting;
\* a 'deleting' project keeps its status and a 'failed' one never becomes
\* 'active'.
C14_StatusFollowsLifecycle ==
    [][\A r \in projects : \A n \in projects' :
        (n.id = r.id /\ n.status # r.status)
        => <<r.status, n.status>> \in StatusEdges]_vars

\* The polls poll_argocd_until_synced makes before it gives up.
MaxPolls == POLL_TIMEOUT_SECONDS \div POLL_INTERVAL_SECONDS

\* C15: the poller gives up exactly when none of its 30 polls (300 s at 10 s)
\* saw Synced and Healthy; it then sets the project's status to 'failed' and
\* leaves cpu_used and ram_gb_used of every team quota row unchanged.
C15_PollTimeoutKeepsReservation ==
    [][\A w \in Workers :
        /\ (txn[w].pc = "poll" /\ txn'[w].pc = "set_status")
           => /\ txn'[w].loc.status = "failed" => txn'[w].loc.polls = 30
              /\ txn'[w].loc.status = "active" => txn'[w].loc.polls \in 1..30
              /\ txn'[w].loc.polls <= MaxPolls
        /\ (/\ txn[w].op = "poll_argocd_until_synced"
            /\ txn[w].pc = "commit" /\ txn'[w].pc = "done"
            /\ txn[w].loc.status = "failed")
           => /\ teamq' = teamq
              /\ \E r \in projects' : r.id = txn[w].args.project_id /\ r.status = "failed"]_vars

\* The poller timed out on a project: it is 'failed' and its reservation is
\* still debited.
C15_Witness ==
    \E w \in Workers, r \in projects, q \in teamq :
        /\ txn[w].op = "poll_argocd_until_synced" /\ txn[w].pc = "done"
        /\ r.id = txn[w].args.project_id /\ r.status = "failed"
        /\ hist[r.id].rollbacks = 0 /\ hist[r.id].intact
        /\ q.team_id = r.team_id /\ q.site = r.site
        /\ q.cpu_used = hist[r.id].cpu_used + r.quota_cpu
        /\ q.ram_gb_used = hist[r.id].ram_gb_used + r.quota_ram_gb

\* C16: delete_project by the team_lead of the project's team credits exactly
\* the project's quota_cpu and quota_ram_gb back to the team quota row of
\* (team, site) and sets the status to 'deleting', in one transaction; for
\* every other actor it raises ForbiddenError and changes neither a project
\* nor a quota.
C16_DeleteCreditsReservation ==
    [][\A s \in Sessions :
        Finishes(s, "delete_project")
        => IF txn'[s].claims.role # "team_lead"
           THEN /\ txn'[s].result = "Forbidden"
                /\ projects' = projects /\ teamq' = teamq /\ deptq' = deptq
           ELSE \A r \in projects :
                  r.id = txn'[s].args.project_id
                  => IF r.team_id # txn'[s].claims.scope_id
                     THEN /\ txn'[s].result = "Forbidden"
                          /\ projects' = projects /\ teamq' = teamq /\ deptq' = deptq
                     ELSE /\ txn'[s].result = "ok"
                          /\ ProjectRow(projects', r.id).status = "deleting"
                          /\ \A q \in QuotaRowsOf(teamq, r) :
                                LET n == TeamQuotaRow(teamq', q.id)
                                IN /\ n.cpu_used = q.cpu_used - r.quota_cpu
                                   /\ n.ram_gb_used = q.ram_gb_used - r.quota_ram_gb]_vars

\* C17: once delete_project has committed and its _deprovision task has run,
\* the project row is retained with deleted_at set and list_projects no
\* longer returns it.
C17_DeletedProjectLeavesList ==
    \A w \in Workers :
        (txn[w].op = "_deprovision" /\ txn[w].pc = "done" /\ txn[w].result = "ok")
        => \E r \in projects :
              /\ r.id = txn[w].args.project_id
              /\ r.deleted_at # "NULL"
              /\ r \notin list_projects(r.team_id)
              /\ r \notin list_projects("None")

UpdateOps == {"update_dept_quota", "update_team_quota"}

\* The quota row with the given id.
QuotaRow(rows, id) == CHOOSE q \in rows : q.id = id

\* The capacity of the parent of a quota row and the sum of the limits of the
\* row and its siblings: the department quota and its team quotas for a team
\* quota row, the field's servers and its department quotas otherwise.
ParentCapacity(op, q) ==
    IF op = "update_team_quota"
    THEN LET d == CHOOSE r \in get_dept_quota_for_update(q.department_id, q.site) : TRUE
         IN <<d.cpu_limit, d.ram_gb_limit>>
    ELSE get_field_total_cpu_ram(q.field_id, q.site)

SiblingLimitSum(op, q) ==
    IF op = "update_team_quota"
    THEN get_team_quota_sum_for_dept_site(q.department_id, q.site)
    ELSE get_dept_quota_sum_for_field_site(q.field_id, q.site)

\* C18: update_dept_quota and update_team_quota of the admin of the parent
\* raise QuotaExceededError when a new limit is below the row's used amount or
\* when siblingLimitSum + (newLimit - oldLimit) exceeds the parent's capacity,
\* in either dimension; a failed update changes no limit, a successful one
\* sets cpu_limit and ram_gb_limit to the new values, and no step changes one
\* limit of a row without the other being set by the same update.
C18_UpdateLimitsAllOrNothing ==
    [][/\ \A s \in Sessions :
            (Finishes(s, txn'[s].op) /\ txn'[s].op \in UpdateOps)
            => LET op == txn'[s].op
                   a == txn'[s].args
                   table == IF op = "update_team_quota" THEN teamq ELSE deptq
                   after == IF op = "update_team_quota" THEN teamq' ELSE deptq'
               IN /\ txn'[s].result # "ok" => (deptq' = deptq /\ teamq' = teamq)
                  /\ txn'[s].result = "ok" => \E q \in table : q.id = a.quota_id
                  /\ (txn'[s].result # "Forbidden" /\ a # <<>>)
                     => \A q \in table :
                         q.id = a.quota_id
                         => LET n == QuotaRow(after, q.id)
                                cap == ParentCapacity(op, q)
                                sum == SiblingLimitSum(op, q)
                                below == \/ a.cpu_limit < q.cpu_used
                                         \/ a.ram_gb_limit < q.ram_gb_used
                                over == \/ sum[1] + (a.cpu_limit - q.cpu_limit) > cap[1]
                                        \/ sum[2] + (a.ram_gb_limit - q.ram_gb_limit)
                                                > cap[2]
                            IN /\ (below \/ over) => txn'[s].result = "QuotaExceeded"
                               /\ txn'[s].result = "ok"
                                  => /\ n.cpu_limit = a.cpu_limit
                                     /\ n.ram_gb_limit = a.ram_gb_limit
       /\ \A q \in deptq \cup teamq : \A n \in deptq' \cup teamq' :
            (/\ n.id = q.id /\ (n \in teamq') = (q \in teamq)
             /\ (n.cpu_limit # q.cpu_limit \/ n.ram_gb_limit # q.ram_gb_limit))
            => \E s \in Sessions :
                  /\ Finishes(s, IF q \in teamq THEN "update_team_quota"
                                 ELSE "update_dept_quota")
                  /\ txn'[s].result = "ok"
                  /\ txn'[s].args.quota_id = q.id
                  /\ n.cpu_limit = txn'[s].args.cpu_limit
                  /\ n.ram_gb_limit = txn'[s].args.ram_gb_limit]_vars

\* An update_team_quota was refused because its ram_gb_limit is below the
\* amount in use, while its cpu_limit alone was acceptable and differs from
\* the row's; and another update of that row has committed both new limits.
C18_Witness ==
    \E s \in Sessions, o \in Sessions, q \in teamq :
        /\ s # o
        /\ txn[s].op = "update_team_quota" /\ txn[s].pc = "done"
        /\ txn[s].result = "QuotaExceeded"
        /\ txn[s].args.quota_id = q.id
        /\ txn[s].args.ram_gb_limit < q.ram_gb_used
        /\ txn[s].args.cpu_limit >= q.cpu_used
        /\ txn[s].args.cpu_limit # q.cpu_limit
        /\ txn[o].op = "update_team_quota" /\ txn[o].pc = "done"
        /\ txn[o].result = "ok"
        /\ txn[o].args.quota_id = q.id
        /\ q.cpu_limit = txn[o].args.cpu_limit
        /\ q.ram_gb_limit = txn[o].args.ram_gb_limit
        /\ q.cpu_limit > CpuUnit

CreateOps == {"create_dept_quota", "create_team_quota"}

\* C19: create_team_quota (create_dept_quota) of the admin of the parent
\* raises ConflictError when a quota exists for (team, site) ((department,
\* site)), QuotaExceededError when the department quota of the site is absent
\* or when siblingLimitSum + the requested limit exceeds the parent's limit
\* (the field's capacity) in either dimension, and then inserts no row;
\* otherwise it inserts exactly one row with the requested limits and used 0.
C19_CreateQuotaContract ==
    [][\A s \in Sessions :
        (/\ Finishes(s, txn'[s].op) /\ txn'[s].op \in CreateOps
         /\ ~ (txn[s].pc = "idle" /\ txn'[s].result = "Forbidden"))
        => LET a == txn'[s].args
               team == txn'[s].op = "create_team_quota"
               table == IF team THEN teamq ELSE deptq
               after == IF team THEN teamq' ELSE deptq'
               exists == IF team THEN get_team_quota_for_update(a.team_id, a.site) # {}
                         ELSE get_dept_quota_for_update(a.dept_id, a.site) # {}
               parents == get_dept_quota_for_update(a.dept_id, a.site)
               cap == IF team
                      THEN LET d == CHOOSE r \in parents : TRUE
                           IN <<d.cpu_limit, d.ram_gb_limit>>
                      ELSE get_field_total_cpu_ram(a.field_id, a.site)
               sum == IF team THEN get_team_quota_sum_for_dept_site(a.dept_id, a.site)
                      ELSE get_dept_quota_sum_for_field_site(a.field_id, a.site)
               refused == \/ team /\ parents = {}
                          \/ sum[1] + a.cpu_limit > cap[1]
                          \/ sum[2] + a.ram_gb_limit > cap[2]
           IN IF exists \/ refused
              THEN /\ after = table
                   /\ \/ txn'[s].result = "Conflict" /\ exists
                      \/ txn'[s].result = "QuotaExceeded" /\ refused
              ELSE /\ txn'[s].result = "ok"
                   /\ \E n \in after \ table :
                        /\ after = table \cup {n}
                        /\ n.site = a.site
                        /\ n.department_id = a.dept_id
                        /\ team => n.team_id = a.team_id
                        /\ n.cpu_limit = a.cpu_limit /\ n.ram_gb_limit = a.ram_gb_limit
                        /\ n.cpu_used = 0 /\ n.ram_gb_used = 0]_vars

\* C20: in every reachable state there is at most one department quota row
\* per (department_id, site) and at most one team quota row per (team_id,
\* site), also after concurrent creates of one key.
C20_OneQuotaPerKey ==
    /\ \A d \in Departments, site \in Sites :
            Cardinality(get_dept_quota_for_update(d, site)) <= 1
    /\ \A tm \in Teams, site \in Sites :
            Cardinality(get_team_quota_for_update(tm, site)) <= 1

\* Two creates of one (team, site) raced: one row is committed and the other
\* request was stopped by the unique constraint at its INSERT.
C20_Witness ==
    \E s \in Sessions, o \in Sessions :
        /\ s # o
        /\ txn[s].op = "create_team_quota" /\ txn[s].pc = "done"
        /\ txn[s].result = "IntegrityError"
        /\ txn[o].op = "create_team_quota" /\ txn[o].pc = "done" /\ txn[o].result = "ok"
        /\ txn[o].args.team_id = txn[s].args.team_id
        /\ txn[o].args.site = txn[s].args.site
        /\ Cardinality(get_team_quota_for_update(txn[s].args.team_id,
                                                 txn[s].args.site)) = 1

\* C21: in every reachable state the fields cpu_limit, ram_gb_limit, cpu_used
\* and ram_gb_used of every department and team quota row are non-negative,
\* whatever integer limits the create and update requests carried.
C21_QuotaFieldsNonNegative ==
    \A q \in deptq \cup teamq :
        /\ q.cpu_limit >= 0 /\ q.ram_gb_limit >= 0
        /\ q.cpu_used >= 0 /\ q.ram_gb_used >= 0

\* The limits the quota requests of SpecFrame carry: one unit of each, and a
\* cpu_limit above every capacity.
FrameLimits ==
    {<<CpuUnit, RamUnit>>, <<(MaxUnits + 1) * CpuUnit, RamUnit>>}

FrameCalls(s) ==
    \/ \E c \in ServerActors, f \in Fields, d \in Departments, site \in Sites,
          l \in FrameLimits :
            create_dept_quota(s, c, f, d, site, l[1], l[2])
    \/ \E c \in ServerActors, id \in 1..MaxQuotaId, l \in FrameLimits :
            update_dept_quota(s, c, id, l[1], l[2])
    \/ \E c \in ServerActors, d \in Departments, tm \in Teams, site \in Sites,
          l \in FrameLimits :
            create_team_quota(s, c, d, tm, site, l[1], l[2])
    \/ \E c \in ServerActors, id \in 1..MaxQuotaId, l \in FrameLimits :
            update_team_quota(s, c, id, l[1], l[2])
    \/ \E c \in ServerActors, n \in ProjectNames, site \in Sites, sla \in SlaInputs :
            create_project(s, c, n, site, sla[1], sla[2])
    \/ \E c \in ServerActors, id \in 1..MaxProjectId : delete_project(s, c, id)

NextFrame ==
    \/ \E s \in Sessions :
            \/ ServerCalls(s) \/ ServerSteps(s)
            \/ FrameCalls(s)
            \/ DeptSteps(s) \/ TeamSteps(s) \/ ProjectSteps(s)
    \/ \E w \in Workers : TaskSteps(w)
    \/ \E p \in Procs : commit(p) \/ respond(p)

\* The requests of a run of SpecFrame.
FrameRequests == 2

\* InitTeamQuota with FrameRequests requests to come.
InitFrame ==
    /\ allocs = {[id |-> 1, server_id |-> "s1", field_id |-> "f1"]}
    /\ deptq = {[id |-> 1, field_id |-> "f1", department_id |-> "d1", site |-> "a",
                 cpu_limit |-> ServerCpu["s1"], ram_gb_limit |-> ServerRam["s1"],
                 cpu_used |-> 0, ram_gb_used |-> 0]}
    /\ teamq = {[id |-> 1, department_id |-> "d1", team_id |-> "t1", site |-> "a",
                 cpu_limit |-> ServerCpu["s1"], ram_gb_limit |-> ServerRam["s1"],
                 cpu_used |-> 0, ram_gb_used |-> 0]}
    /\ projects = {}
    /\ txn = [p \in Procs |-> Idle]
    /\ tasks = <<>>
    /\ backend = NoNamespaces
    /\ hist = NoHistory
    /\ org = FullOrg
    /\ naming = NoNaming
    /\ budget = FrameRequests

\* Every mutating operation, by a caller of every role, on the state after
\* one assignment, one department quota and one team quota; FrameRequests
\* requests and their tasks.
SpecFrame == InitFrame /\ [][NextFrame]_vars

\* The tables of the claim: server allocations, quota rows and project rows.
Tables == <<allocs, deptq, teamq, projects>>

\* C22: a mutating operation that ends in an error leaves the server
\* allocations, the quota rows and the project rows as they were before the
\* call.  No step of a request changes a table except the step in which the
\* request ends successfully, and the step in which a request ends in an error
\* changes no table and drops every write the request had pending.
C22_ErrorLeavesTablesUnchanged ==
    [][\A s \in Sessions :
        /\ (txn'[s] # txn[s] /\ ~(txn'[s].pc = "done" /\ txn'[s].result = "ok"))
                => Tables' = Tables
        /\ (txn[s].pc # "done" /\ txn'[s].pc = "done" /\ txn'[s].result # "ok")
                => txn'[s].w = NoWrites /\ txn'[s].locks = {}]_vars

\* A swap ended with ConflictError and the binding it named is still there.
C22_Witness ==
    \E s \in Sessions :
        /\ txn[s].op = "swap_server_between_fields" /\ txn[s].pc = "done"
        /\ txn[s].result = "Conflict"
        /\ allocs # {}
        /\ \E o \in Sessions : o # s /\ txn[o].pc = "done" /\ txn[o].result = "QuotaExceeded"

ServerOps ==
    {"assign_server_to_field", "remove_server_from_field", "swap_server_between_fields"}

\* C23: assign_server_to_field, remove_server_from_field and
\* swap_server_between_fields are refused with ForbiddenError exactly for the
\* callers that are no super-admin (center_admin or platform_admin), and a
\* refused call changes no allocation.
C23_ServerOpsForSuperAdmins ==
    [][\A s \in Sessions :
        (\E op \in ServerOps : Finishes(s, op)) =>
            /\ txn'[s].result = "Forbidden" <=> ~is_super_admin(txn'[s].claims)
            /\ txn'[s].result = "Forbidden" => allocs' = allocs]_vars

\* The admin role a quota operation asks for and the id its scope must equal
\* (the parent of the quota of a finished request of session s).
QuotaGate(t) ==
    IF t.op = "create_dept_quota"
    THEN [role |-> "field_admin", parent |-> {t.args.field_id}]
    ELSE IF t.op = "update_dept_quota"
    THEN [role |-> "field_admin",
          parent |-> {q.field_id : q \in {r \in deptq : r.id = t.args.quota_id}}]
    ELSE IF t.op = "create_team_quota"
    THEN [role |-> "dept_admin", parent |-> {t.args.dept_id}]
    ELSE [role |-> "dept_admin",
          parent |-> {q.department_id : q \in {r \in teamq : r.id = t.args.quota_id}}]

QuotaOps == CreateOps \cup UpdateOps

\* C24: creating or updating a department quota is permitted exactly for the
\* field_admin of the quota's field or a super-admin, creating or updating a
\* team quota exactly for the dept_admin of its department or a super-admin;
\* every other caller gets ForbiddenError and no quota row is created or
\* changed.
C24_QuotaOpsGate ==
    [][\A s \in Sessions :
        (\E op \in QuotaOps : Finishes(s, op)) =>
            LET t == txn'[s]
            IN /\ is_super_admin(t.claims) => t.result # "Forbidden"
               /\ t.result \notin {"Forbidden", "NotFound"} =>
                    \/ is_super_admin(t.claims)
                    \/ /\ t.claims.role = QuotaGate(t).role
                       /\ t.claims.scope_id \in QuotaGate(t).parent
               /\ t.result = "Forbidden" => deptq' = deptq /\ teamq' = teamq]_vars

\* The department quotas of a field with a nonzero used amount.
UsedDeptQuotas(field_id) ==
    {q \in deptq : q.field_id = field_id /\ (q.cpu_used # 0 \/ q.ram_gb_used # 0)}

AdminActors ==
    {c \in Actors : is_super_admin(c) \/ (c.role = "dept_admin" /\ c.scope_id = "d1")}

\* The state after assign_server_to_field(s1, f1) and (s2, f2),
\* create_dept_quota(f1, d1, a) with the capacity of f1, create_team_quota(d1,
\* t1, a) with half of it and a create_project(bronze, regular) of t1 that
\* became active; any number of requests.
InitAdmin ==
    /\ allocs = {[id |-> 1, server_id |-> "s1", field_id |-> "f1"],
                 [id |-> 2, server_id |-> "s2", field_id |-> "f2"]}
    /\ deptq = {[id |-> 1, field_id |-> "f1", department_id |-> "d1", site |-> "a",
                 cpu_limit |-> ServerCpu["s1"], ram_gb_limit |-> ServerRam["s1"],
                 cpu_used |-> 0, ram_gb_used |-> 0]}
    /\ teamq = {[id |-> 1, department_id |-> "d1", team_id |-> "t1", site |-> "a",
                 cpu_limit |-> CpuUnit, ram_gb_limit |-> RamUnit,
                 cpu_used |-> CpuUnit, ram_gb_used |-> RamUnit]}
    /\ projects = {[id |-> 1, name |-> <<"p">>, team_id |-> "t1", site |-> "a",
                    namespace_name |-> make_namespace_name(TeamIdText["t1"], <<"p">>),
                    status |-> "active",
                    quota_cpu |-> CpuUnit, quota_ram_gb |-> RamUnit,
                    deleted_at |-> "NULL"]}
    /\ txn = [p \in Procs |-> Idle]
    /\ tasks = <<>>
    /\ backend = [NoNamespaces EXCEPT ![make_namespace_name(TeamIdText["t1"], <<"p">>)] = 1]
    /\ hist = [NoHistory EXCEPT ![1] = [cpu_used |-> 0, ram_gb_used |-> 0,
                                        intact |-> TRUE, rollbacks |-> 0]]
    /\ org = FullOrg
    /\ naming = NoNaming
    /\ budget = 0 - 1

AdminCalls(s) ==
    \/ \E c \in AdminActors, id \in Centers : delete_center(s, c, id)
    \/ \E c \in AdminActors, id \in Fields : delete_field(s, c, id)
    \/ \E c \in AdminActors, id \in Departments : delete_department(s, c, id)
    \/ \E c \in AdminActors, id \in Teams : delete_team(s, c, id)

NextAdmin ==
    \E s \in Sessions :
        \/ AdminCalls(s)
        \/ delete_org_row(s)
        \/ \E c \in Actors : get_allocation_tree(s, c)
        \/ \E c \in CenterAdmins, id \in 1..MaxAllocId : remove_server_from_field(s, c, id)
        \/ remove_check(s)
        \/ delete_server_allocation(s)
        \/ \E c \in AdminActors, tm \in Teams, l \in FrameLimits :
                create_team_quota(s, c, "d1", tm, "a", l[1], l[2])
        \/ TeamSteps(s)
        \/ \E c \in FieldAdmins, l \in FrameLimits :
                create_dept_quota(s, c, "f2", "d2", "a", l[1], l[2])
        \/ DeptSteps(s)
        \/ commit(s)
        \/ respond(s)

\* The org deletes and the allocation tree, with the removal of servers and
\* the creation of team quotas, on a populated database.
SpecAdmin == InitAdmin /\ [][NextAdmin]_vars

\* Session s returns an allocation tree to a caller of the given role in this
\* step.
ReturnsTree(s, role) ==
    /\ Finishes(s, "get_allocation_tree")
    /\ txn'[s].claims.role = role

\* C25: the tree a field_admin gets contains no Field other than the one of
\* its scope_id and a Center only if that Center contains this field; a Center
\* never appears empty, so a field_admin whose field lies in no Center gets
\* zero Centers.
C25_FieldAdminTree ==
    [][\A s \in Sessions :
        ReturnsTree(s, "field_admin") =>
            LET me == txn'[s].claims.scope_id
                centers == txn'[s].loc.centers
            IN /\ \A c \in centers : \A f \in c.fields : f.field_id = me
               /\ \A c \in centers : /\ c.fields # {}
                                     /\ me \in org.fields
                                     /\ FieldCenter[me] = c.center_id
               /\ me \notin org.fields => centers = {}]_vars

\* The field_admin of f1 got one Center with one Field while another Center
\* with a field and a Center without fields exist; the field_admin of f2 would
\* get nothing of f1.
C25_Witness ==
    \E s \in Sessions :
        /\ txn[s].op = "get_allocation_tree" /\ txn[s].pc = "done"
        /\ txn[s].claims = [role |-> "field_admin", scope_id |-> "f1"]
        /\ Cardinality(txn[s].loc.centers) = 1
        /\ \A c \in txn[s].loc.centers :
                c.center_id = "c1" /\ {f.field_id : f \in c.fields} = {"f1"}
        /\ org = FullOrg

\* C26: the tree a center_admin or a platform_admin gets contains every
\* Center, those without fields included, and every Field of each Center.
C26_SuperAdminTree ==
    [][\A s \in Sessions :
        (\E role \in SUPER_ADMIN_ROLES : ReturnsTree(s, role)) =>
            LET centers == txn'[s].loc.centers
            IN /\ {c.center_id : c \in centers} = org.centers
               /\ \A c \in centers :
                    {f.field_id : f \in c.fields}
                        = {x \in org.fields : FieldCenter[x] = c.center_id}]_vars

\* The team quota nodes and the department quota nodes of a tree.
DeptNodesOf(centers) == UNION {f.departments : f \in UNION {c.fields : c \in centers}}

TeamNodesOf(centers) == UNION {d.teams : d \in DeptNodesOf(centers)}

\* C27: the tree a team_lead gets contains no team quota node of a team other
\* than its scope_id, and the tree a dept_admin gets no department quota node
\* of a department other than its scope_id.
C27_NoSiblingQuotaNodes ==
    [][\A s \in Sessions :
        /\ ReturnsTree(s, "team_lead") =>
                \A n \in TeamNodesOf(txn'[s].loc.centers) :
                    n.team_id = txn'[s].claims.scope_id
        /\ ReturnsTree(s, "dept_admin") =>
                \A n \in DeptNodesOf(txn'[s].loc.centers) :
                    n.dept_id = txn'[s].claims.scope_id]_vars

\* The team_lead of t1 got the quota node of t1 and no other while team t2 has
\* a quota of the same department, and the dept_admin of d1 got the quota
\* node of d1 and no other while department d2 has a quota.
C27_Witness ==
    \E s \in Sessions, o \in Sessions :
        /\ txn[s].op = "get_allocation_tree" /\ txn[s].pc = "done"
        /\ txn[s].claims = [role |-> "team_lead", scope_id |-> "t1"]
        /\ {n.team_id : n \in TeamNodesOf(txn[s].loc.centers)} = {"t1"}
        /\ \E q \in teamq : q.team_id = "t2" /\ q.department_id = "d1"
        /\ txn[o].op = "get_allocation_tree" /\ txn[o].pc = "done"
        /\ txn[o].claims = [role |-> "dept_admin", scope_id |-> "d1"]
        /\ {n.dept_id : n \in DeptNodesOf(txn[o].loc.centers)} = {"d1"}
        /\ \E q \in deptq : q.department_id = "d2"

\* C28: the tree of a dept_admin or of a team_lead is narrowed to its branch:
\* every Field of the tree holds a department quota node of the dept_admin's
\* department (for a team_lead: every department quota node holds a node of
\* its team and every Field such a department node), so no other Field's
\* capacity and no other Department's numbers appear, and no Center is empty.
C28_ScopedTreeIsOwnBranch ==
    [][\A s \in Sessions :
        /\ ReturnsTree(s, "dept_admin") =>
                \A c \in txn'[s].loc.centers :
                    /\ c.fields # {}
                    /\ \A f \in c.fields :
                            /\ f.departments # {}
                            /\ \A d \in f.departments : d.dept_id = txn'[s].claims.scope_id
        /\ ReturnsTree(s, "team_lead") =>
                \A c \in txn'[s].loc.centers :
                    /\ c.fields # {}
                    /\ \A f \in c.fields :
                            /\ f.departments # {}
                            /\ \A d \in f.departments :
                                    /\ d.teams # {}
                                    /\ \A n \in d.teams :
                                            n.team_id = txn'[s].claims.scope_id]_vars

DeleteOps == {"delete_center", "delete_field", "delete_department", "delete_team"}

\* Every row that refers to an org node refers to a node that exists.
NoDanglingReference ==
    /\ \A f \in org.fields : FieldCenter[f] \in org.centers
    /\ \A d \in org.departments : DeptField[d] \in org.fields
    /\ \A tm \in org.teams : TeamDept[tm] \in org.departments
    /\ \A r \in allocs : r.field_id \in org.fields
    /\ \A q \in deptq : q.field_id \in org.fields /\ q.department_id \in org.departments
    /\ \A q \in teamq : q.department_id \in org.departments /\ q.team_id \in org.teams
    /\ \A p \in projects : p.team_id \in org.teams

\* C30: a delete_team of a super-admin for an existing team ends with
\* ConflictError and keeps the team when the team has a project, and succeeds
\* when it has none; delete_center, delete_field and delete_department end
\* with ConflictError and keep the node while it has child fields,
\* departments or teams; no org node is gone while a row refers to it.
C30_StructuralDeletesBlocked ==
    [][/\ \A s \in Sessions :
            (\E op \in DeleteOps : Finishes(s, op)) =>
                LET t == txn'[s]
                    kind == t.args.kind
                    id == t.args.id
                IN (t.result \notin {"Forbidden", "NotFound"}) =>
                    IF has_children(kind, id)
                    THEN t.result = "Conflict" /\ id \in org'[kind]
                    ELSE kind = "teams" => (t.result = "ok" /\ id \notin org'[kind])
       /\ NoDanglingReference']_vars

\* ------------------------------------------------------- make_namespace_name

\* Longest run of one letter at the head of a project name.
MaxPad == 60

\* n copies of the character c
Repeat(c, n) == [i \in 1..n |-> c]

\* The team ids (Claims.scope_id is any string) and the project names
\* (CreateProjectRequest.name is any string) a call may carry.
TeamTexts == {<<"t", "1">>, <<"T", "_", "1">>, <<"-", "t", "-">>}
NameTails ==
    {<<>>, <<"q">>, <<"-", "q">>, <<" ", "!", "q">>, <<"Q", "-">>, <<"-", "-", "p", "_">>}
NameInputs == {Repeat("p", n) \o tail : n \in 0..MaxPad, tail \in NameTails}

\* A call of make_namespace_name is about to be made with some arguments.
InitNames ==
    /\ allocs = {}
    /\ deptq = {}
    /\ teamq = {}
    /\ projects = {}
    /\ txn = [p \in Procs |-> Idle]
    /\ tasks = <<>>
    /\ backend = NoNamespaces
    /\ hist = NoHistory
    /\ org = FullOrg
    /\ naming \in {[team_id |-> tm, project_name |-> n, result |-> "none"] :
                        tm \in TeamTexts, n \in NameInputs}
    /\ budget = 0 - 1

\* The call returns.
call_make_namespace_name ==
    /\ naming.result = "none"
    /\ naming' = [naming EXCEPT
                    !.result = make_namespace_name(naming.team_id, naming.project_name)]
    /\ UNCHANGED <<org, hist, allocs, deptq, teamq, projects, txn, budget, tasks, backend>>

NextNames == call_make_namespace_name

SpecNames == InitNames /\ [][NextNames]_vars

\* C31: the name make_namespace_name returns has at most 63 characters, all of
\* them in [a-z0-9-], has no two consecutive hyphens and neither starts nor
\* ends with a hyphen.
C31_NamespaceNameIsDns1123 ==
    naming.result # "none" =>
        LET name == naming.result
        IN /\ Len(name) <= NamespaceMaxLen
           /\ \A i \in 1..Len(name) : name[i] \in DnsChars
           /\ \A i \in 1..(Len(name) - 1) : ~(name[i] = "-" /\ name[i + 1] = "-")
           /\ name # <<>> => name[1] # "-" /\ name[Len(name)] # "-"

\* ------------------------------------------------------- the SLA table

\* The (sla_type, performance_tier) pairs a POST /projects body may carry:
\* the six of the table and two with a value the validators refuse.
SlaRequests ==
    {<<sla, tier>> : sla \in {"bronze", "silver", "gold"},
                     tier \in {"regular", "high_performance"}}
    \cup {<<"platinum", "regular">>, <<"gold", "turbo">>}

\* The callers of POST /projects: the lead of t1 and one caller who is no team lead.
SlaActors ==
    {c \in Actors : (c.role = "team_lead" /\ c.scope_id = "t1")
                    \/ (c.role = "dept_admin" /\ c.scope_id = "d1")}

\* A team quota of t1 at site a that has room for the largest reservation.
InitSla ==
    /\ allocs = {[id |-> 1, server_id |-> "s1", field_id |-> "f1"]}
    /\ deptq = {[id |-> 1, field_id |-> "f1", department_id |-> "d1", site |-> "a",
                 cpu_limit |-> get_quota("gold", "high_performance")[1],
                 ram_gb_limit |-> get_quota("gold", "high_performance")[2],
                 cpu_used |-> 0, ram_gb_used |-> 0]}
    /\ teamq = {[id |-> 1, department_id |-> "d1", team_id |-> "t1", site |-> "a",
                 cpu_limit |-> get_quota("gold", "high_performance")[1],
                 ram_gb_limit |-> get_quota("gold", "high_performance")[2],
                 cpu_used |-> 0, ram_gb_used |-> 0]}
    /\ projects = {}
    /\ txn = [p \in Procs |-> Idle]
    /\ tasks = <<>>
    /\ backend = NoNamespaces
    /\ hist = NoHistory
    /\ org = FullOrg
    /\ naming = NoNaming
    /\ budget = FrameRequests

NextSla ==
    \/ \E s \in Sessions, c \in SlaActors, n \in ProjectNames, site \in Sites,
          sla \in SlaRequests : create_project(s, c, n, site, sla[1], sla[2])
    \/ \E s \in Sessions : create_project_flush(s)
    \/ \E w \in Workers :
            \/ start_task(w)
            \/ task_get_by_id(w)
            \/ provision(w)
            \/ rollback_lock_project(w)
            \/ rollback_credit(w)
            \/ poll_argocd_until_synced(w)
            \/ update_status(w)
    \/ \E p \in Procs : commit(p) \/ respond(p)

\* POST /projects with every pair, FrameRequests requests and their tasks.
SpecSla == InitSla /\ [][NextSla]_vars

\* The table as the claim states it.
C32_Table ==
    [p \in {<<sla, tier>> : sla \in {"bronze", "silver", "gold"},
                            tier \in {"regular", "high_performance"}} |->
        IF p = <<"bronze", "regular">> THEN <<2, 4>>
        ELSE IF p = <<"bronze", "high_performance">> THEN <<4, 8>>
        ELSE IF p = <<"silver", "regular">> THEN <<4, 16>>
        ELSE IF p = <<"silver", "high_performance">> THEN <<8, 32>>
        ELSE IF p = <<"gold", "regular">> THEN <<8, 32>>
        ELSE <<16, 64>>]

C32_Pair(s) == <<txn[s].args.sla_type, txn[s].args.performance_tier>>

\* C32: the project a create_project commits carries the table's entry for
\* its (sla_type, performance_tier) as quota_cpu and quota_ram_gb and debits
\* the team quota by it; a create_project whose pair is not in the table ends
\* at once with ValidationError, and its step changes no project and no quota.
C32_ReservationIsTableEntry ==
    [][\A s \in Sessions :
        /\ (txn[s].op = "create_project" /\ txn[s].pc = "commit" /\ txn'[s].pc = "done") =>
                /\ C32_Pair(s) \in DOMAIN C32_Table
                /\ \E r \in projects' \ projects :
                        /\ <<r.quota_cpu, r.quota_ram_gb>> = C32_Table[C32_Pair(s)]
                        /\ \E q \in teamq, q2 \in teamq' :
                                /\ q.id = q2.id
                                /\ q.team_id = r.team_id
                                /\ q2.cpu_used = q.cpu_used + C32_Table[C32_Pair(s)][1]
                                /\ q2.ram_gb_used = q.ram_gb_used + C32_Table[C32_Pair(s)][2]
        /\ (txn[s].pc = "idle" /\ txn'[s].op = "create_project" /\ txn'[s].args # <<>>
            /\ <<txn'[s].args.sla_type, txn'[s].args.performance_tier>> \notin DOMAIN C32_Table) =>
                /\ txn'[s].pc = "done"
                /\ txn'[s].result = "ValidationError"
                /\ txn'[s].w = NoWrites
                /\ UNCHANGED <<projects, teamq, deptq>>
      ]_vars

\* C32 witness: a gold/high_performance project holds 16 CPU and 64 GB of its
\* team quota, and a request with an unknown sla_type was refused.
C32_Witness ==
    /\ \E r \in projects : r.quota_cpu = 16 /\ r.quota_ram_gb = 64
    /\ \E q \in teamq : q.cpu_used = 16 /\ q.ram_gb_used = 64
    /\ \E s \in Sessions :
            /\ txn[s].op = "create_project"
            /\ txn[s].result = "ValidationError"
            /\ txn[s].args.sla_type = "platinum"

\* ------------------------------------------------------- lock order

\* The hierarchy level of the table a row lock belongs to:
\* Field 1, Department 2, Team 3, Project 4.
LockLevel(l) == IF l[1] = "dq" THEN 2 ELSE IF l[1] = "tq" THEN 3 ELSE 4

\* The row locks the step gives to process p.
Acquired(p) == txn'[p].locks \ txn[p].locks

\* C33 as claimed: a transaction that takes a row lock while it holds another
\* holds the parent-level row and takes the child-level row (Field ->
\* Department -> Team -> Project).
C33_ParentLockedFirst ==
    [][\A p \in Procs : \A l \in Acquired(p) : \A h \in txn[p].locks :
            LockLevel(h) < LockLevel(l)]_vars

\* C33 amended: a transaction that takes a row lock while it holds another
\* holds the child-level row and takes the parent-level row, and a step takes
\* locks of one level only: the single order is Project -> Team -> Department.
C33_ChildLockedFirst ==
    [][\A p \in Procs :
            /\ \A l \in Acquired(p) : \A h \in txn[p].locks : LockLevel(h) > LockLevel(l)
            /\ \A l \in Acquired(p) : \A k \in Acquired(p) : LockLevel(l) = LockLevel(k)
      ]_vars

\* C33 witness: an update_team_quota holds its team quota row and the
\* department quota row, while the rollback of a failed provisioning holds
\* the project row.
C33_Witness ==
    /\ \E s \in Sessions :
            /\ txn[s].op = "update_team_quota"
            /\ \E l \in txn[s].locks : l[1] = "tq"
            /\ \E l \in txn[s].locks : l[1] = "dq"
    /\ \E w \in Workers : \E l \in txn[w].locks : l[1] = "proj"

\* ------------------------------------------------------- deadlock freedom

\* The callers the gates of the operations of SpecLocks let through.
FieldAdminOfF1 == [role |-> "field_admin", scope_id |-> "f1"]
DeptAdminOfD1 == [role |-> "dept_admin", scope_id |-> "d1"]
TeamLeadOfT1 == [role |-> "team_lead", scope_id |-> "t1"]

\* Both servers on f1, a department quota of d1 with the capacity of one of
\* them, a team quota of t1 of one unit and a create_project(bronze, regular)
\* of t1 whose _provision_and_poll task has not started.
InitLocks ==
    /\ allocs = {[id |-> 1, server_id |-> "s1", field_id |-> "f1"],
                 [id |-> 2, server_id |-> "s2", field_id |-> "f1"]}
    /\ deptq = {[id |-> 1, field_id |-> "f1", department_id |-> "d1", site |-> "a",
                 cpu_limit |-> ServerCpu["s1"], ram_gb_limit |-> ServerRam["s1"],
                 cpu_used |-> 0, ram_gb_used |-> 0]}
    /\ teamq = {[id |-> 1, department_id |-> "d1", team_id |-> "t1", site |-> "a",
                 cpu_limit |-> CpuUnit, ram_gb_limit |-> RamUnit,
                 cpu_used |-> CpuUnit, ram_gb_used |-> RamUnit]}
    /\ projects = {[id |-> 1, name |-> <<"p">>, team_id |-> "t1", site |-> "a",
                    namespace_name |-> make_namespace_name(TeamIdText["t1"], <<"p">>),
                    status |-> "provisioning",
                    quota_cpu |-> CpuUnit, quota_ram_gb |-> RamUnit,
                    deleted_at |-> "NULL"]}
    /\ txn = [p \in Procs |-> Idle]
    /\ tasks = <<[kind |-> "_provision_and_poll", project_id |-> 1]>>
    /\ backend = NoNamespaces
    /\ hist = [NoHistory EXCEPT ![1] = [cpu_used |-> 0, ram_gb_used |-> 0,
                                        intact |-> TRUE, rollbacks |-> 0]]
    /\ org = FullOrg
    /\ naming = NoNaming
    /\ budget = FrameRequests

\* One request of each kind on the rows of InitLocks, by the caller its gate
\* lets through, with limits of one unit.
LockCalls(s) ==
    \/ create_dept_quota(s, FieldAdminOfF1, "f1", "d2", "a", CpuUnit, RamUnit)
    \/ update_dept_quota(s, FieldAdminOfF1, 1, CpuUnit, RamUnit)
    \/ \E tm \in Teams : create_team_quota(s, DeptAdminOfD1, "d1", tm, "a", CpuUnit, RamUnit)
    \/ update_team_quota(s, DeptAdminOfD1, 1, CpuUnit, RamUnit)
    \/ create_project(s, TeamLeadOfT1, <<"q">>, "a", "bronze", "regular")
    \/ \E id \in 1..MaxProjectId : delete_project(s, TeamLeadOfT1, id)

\* The statements of the request running on session s: the event loop resumes
\* a coroutine whose awaited statement can complete.
SessionSteps(s) ==
    \/ DeptSteps(s) \/ TeamSteps(s) \/ ProjectSteps(s)
    \/ commit(s) \/ respond(s)

\* The statements of the background task running on worker w.
WorkerSteps(w) == TaskSteps(w) \/ commit(w) \/ respond(w)

NextLocks ==
    \/ \E s \in Sessions : LockCalls(s) \/ SessionSteps(s)
    \/ \E w \in Workers : WorkerSteps(w)

\* The quota and project operations and the background tasks around one
\* project that is being provisioned.
SpecLocks == InitLocks /\ [][NextLocks]_vars

\* SpecLocks with every request and every task scheduled fairly; the arrival
\* of requests is not fair.
SpecLocksFair ==
    /\ SpecLocks
    /\ \A s \in Sessions : WF_vars(SessionSteps(s))
    /\ \A w \in Workers : WF_vars(WorkerSteps(w))

\* C34: every transaction of a request or of a background task ends (it
\* commits or it aborts with its error), so that its session is again and
\* again outside a transaction: no set of transactions waits for each
\* other's row locks for ever.
C34_EveryTransactionEnds ==
    \A p \in Procs : []<>(txn[p].pc \in {"idle", "done"})

\* C34 witness: a delete_project that holds the project row waits for the
\* team quota row, which an update_team_quota holds while it waits for the
\* department quota row; the rollback waits for the project row.
C34_Witness ==
    \E s \in Sessions, o \in Sessions, w \in Workers :
        /\ txn[s].pc = "del_credit"
        /\ <<"proj", 1>> \in txn[s].locks
        /\ txn[o].op = "update_team_quota"
        /\ <<"tq", 1>> \in txn[o].locks
        /\ txn[w].op = "_provision_and_poll"
        /\ txn[w].pc \notin {"idle", "done"}

\* ------------------------------------------------------- backend calls

\* Where a task is inside ProvisioningBackend.provision, deprovision or the
\* polling loop.
BackendPcs == {"provision", "deprovision", "poll"}

\* C35: a task that is inside provision, deprovision or the polling loop
\* holds no row lock and has no uncommitted write; values.yaml changes only in
\* a step of such a task, for a project whose row is committed; and the commit
\* of create_project ends the request with the 'provisioning' project and the
\* task created but not started, the backend untouched.
C35_BackendOutsideTransactions ==
    [][/\ \A w \in Procs :
            txn'[w].pc \in BackendPcs => txn'[w].locks = {} /\ txn'[w].w = NoWrites
       /\ backend' # backend =>
            \E w \in Workers :
                /\ txn[w].pc \in {"provision", "deprovision"}
                /\ txn'[w] # txn[w]
                /\ txn[w].locks = {}
                /\ \E r \in projects : r.id = txn[w].args.project_id
       /\ \A s \in Sessions :
            (txn[s].op = "create_project" /\ txn[s].pc = "commit" /\ txn'[s].pc = "done") =>
                /\ backend' = backend
                /\ txn'[s].result = "ok"
                /\ txn'[s].locks = {}
                /\ Len(tasks') = Len(tasks) + 1
                /\ tasks'[Len(tasks')].kind = "_provision_and_poll"
                /\ \E r \in projects' \ projects :
                        /\ r.id = tasks'[Len(tasks')].project_id
                        /\ r.status = "provisioning"
      ]_vars

\* C35 witness: the response of create_project was sent and its session is
\* closed while the task is inside provision, values.yaml still without the
\* entry.
C35_Witness ==
    /\ \A s \in Sessions : txn[s].pc = "idle"
    /\ \E w \in Workers : txn[w].pc = "provision" /\ txn[w].locks = {}
    /\ backend = NoNamespaces
    /\ \E r \in projects : r.status = "provisioning"

\* ------------------------------------------------------- provisioning ends

\* InitTeamQuota with FrameRequests requests to come.
InitProvision ==
    /\ allocs = {[id |-> 1, server_id |-> "s1", field_id |-> "f1"]}
    /\ deptq = {[id |-> 1, field_id |-> "f1", department_id |-> "d1", site |-> "a",
                 cpu_limit |-> ServerCpu["s1"], ram_gb_limit |-> ServerRam["s1"],
                 cpu_used |-> 0, ram_gb_used |-> 0]}
    /\ teamq = {[id |-> 1, department_id |-> "d1", team_id |-> "t1", site |-> "a",
                 cpu_limit |-> ServerCpu["s1"], ram_gb_limit |-> ServerRam["s1"],
                 cpu_used |-> 0, ram_gb_used |-> 0]}
    /\ projects = {}
    /\ txn = [p \in Procs |-> Idle]
    /\ tasks = <<>>
    /\ backend = NoNamespaces
    /\ hist = NoHistory
    /\ org = FullOrg
    /\ naming = NoNaming
    /\ budget = FrameRequests

\* Projects under one team quota, FrameRequests requests and their tasks.
SpecProvision == InitProvision /\ [][NextProj]_vars

\* SpecProvision with the event loop running every task and every request
\* whose awaited statement can complete; the arrival of requests is not fair.
SpecProvisionFair ==
    /\ SpecProvision
    /\ \A s \in Sessions : WF_vars(ProjectSteps(s) \/ commit(s) \/ respond(s))
    /\ \A w \in Workers : WF_vars(WorkerSteps(w))

\* The project row with this id is in status 'provisioning'.
Provisioning(id) == \E r \in projects : r.id = id /\ r.status = "provisioning"

CreditCommits(p) ==
    /\ txn[p].op \in {"delete_project"} \cup RollbackOps
    /\ txn[p].pc = "commit"
    /\ txn'[p].pc = "done"
    /\ txn[p].w.updTq # {}

\* C37: a delete_project or a rollback that commits for a project whose
\* reservation was already credited back (its status is 'deleting', or a
\* rollback was committed for it) leaves cpu_used and ram_gb_used of the team
\* quota as they are.
C37_CreditedAtMostOnce ==
    [][\A p \in Procs : \A r \in projects :
            (/\ CreditCommits(p)
             /\ r.id = txn[p].args.project_id
             /\ (r.status = "deleting" \/ hist[r.id].rollbacks >= 1))
            => \A q \in QuotaRowsOf(teamq, r) :
                    /\ TeamQuotaRow(teamq', q.id).cpu_used = q.cpu_used
                    /\ TeamQuotaRow(teamq', q.id).ram_gb_used = q.ram_gb_used
      ]_vars

\* ------------------------------------------------------- live reservations

\* The projects of a team quota row that hold a reservation.
LiveProjects(q) ==
    {r \in projects : /\ r.team_id = q.team_id /\ r.site = q.site
                      /\ r.status \in {"provisioning", "active"}}

\* C38: in every reachable state cpu_used and ram_gb_used of a team quota row
\* are at least the sums of quota_cpu and quota_ram_gb over the projects of
\* its team and site whose status is 'provisioning' or 'active'.
C38_UsedCoversLiveProjects ==
    \A q \in teamq :
        /\ q.cpu_used >= SumOf(LiveProjects(q), "quota_cpu")
        /\ q.ram_gb_used >= SumOf(LiveProjects(q), "quota_ram_gb")

\* ------------------------------------------------------- department usage

\* The limits the quota requests of SpecUsed carry: those of SpecFrame and a
\* negative cpu_limit.
UsedLimits == FrameLimits \cup {<<(0 - NegUnits) * CpuUnit, RamUnit>>}

UsedCalls(s) ==
    \/ \E c \in ServerActors, f \in Fields, d \in Departments, site \in Sites,
          l \in UsedLimits :
            create_dept_quota(s, c, f, d, site, l[1], l[2])
    \/ \E c \in ServerActors, id \in 1..MaxQuotaId, l \in UsedLimits :
            update_dept_quota(s, c, id, l[1], l[2])
    \/ \E c \in ServerActors, d \in Departments, tm \in Teams, site \in Sites,
          l \in UsedLimits :
            create_team_quota(s, c, d, tm, site, l[1], l[2])
    \/ \E c \in ServerActors, id \in 1..MaxQuotaId, l \in UsedLimits :
            update_team_quota(s, c, id, l[1], l[2])
    \/ \E c \in ServerActors, n \in ProjectNames, site \in Sites, sla \in SlaInputs :
            create_project(s, c, n, site, sla[1], sla[2])
    \/ \E c \in ServerActors, id \in 1..MaxProjectId : delete_project(s, c, id)

NextUsed ==
    \/ \E s \in Sessions :
            \/ ServerCalls(s) \/ ServerSteps(s)
            \/ UsedCalls(s)
            \/ DeptSteps(s) \/ TeamSteps(s) \/ ProjectSteps(s)
    \/ \E w \in Workers : TaskSteps(w)
    \/ \E p \in Procs : commit(p) \/ respond(p)

\* Every mutating operation, with limits of either sign, on the state after
\* one assignment, one department quota and one team quota.
SpecUsed == InitFrame /\ [][NextUsed]_vars

\* The step is an update_dept_quota refused by its check against the used
\* amounts.
ShrinkCheckTriggers(s) ==
    /\ txn[s].pc = "idle"
    /\ txn'[s].op = "update_dept_quota"
    /\ txn'[s].pc = "done"
    /\ txn'[s].result = "QuotaExceeded"

C40_DeprovisionNotOvertaken ==
    [][\A w \in Workers :
            (/\ txn[w].pc = "provision"
             /\ backend' # backend
             /\ \E r \in projects : r.id = txn[w].args.project_id /\ r.status = "deleting")
            => \E i \in 1..Len(tasks) :
                    /\ tasks[i].kind = "_deprovision"
                    /\ tasks[i].project_id = txn[w].args.project_id
      ]_vars

====
